---- MODULE Spec2Model ----
(***************************************************************************)
(* A model of the ELN XML -> PDF converter (src/pdf_processor.py and its   *)
(* Flask front end src/app.py).                                            *)
(*                                                                         *)
(* Text is modelled as a sequence of one-character strings, so that        *)
(* strip(), html.escape() and the [:n] truncations are computed and not    *)
(* assumed.  None is the Python None.  A reportlab flowable is a record    *)
(* whose kind field names its class.                                       *)
(***************************************************************************)
EXTENDS Integers, Sequences, FiniteSets, TLC

\* Python's None where a str is expected (an absent attribute, no text): a
\* sequence no text equals, every character of a text being one character long.
None == <<"None">>
\* Python's None where an object is expected (Element.find() found nothing,
\* create_pdf_table returned nothing).
NoElement == [kind |-> "None"]

\* ------------------------------------------------------------------ text

\* The characters str.strip() removes (those the inputs below use).
Whitespace == {" ", "\n", "\t"}

RECURSIVE lstrip(_)
lstrip(s) == IF s # <<>> /\ Head(s) \in Whitespace THEN lstrip(Tail(s)) ELSE s

RECURSIVE rstrip(_)
rstrip(s) ==
    IF s # <<>> /\ s[Len(s)] \in Whitespace
    THEN rstrip(SubSeq(s, 1, Len(s) - 1))
    ELSE s

strip(s) == rstrip(lstrip(s))

\* Python truthiness of `s and s.strip()` for a str-or-None value.
NonBlank(s) == s # None /\ strip(s) # <<>>

escape_char(c) ==
    CASE c = "&" -> <<"&", "a", "m", "p", ";">>
      [] c = "<" -> <<"&", "l", "t", ";">>
      [] c = ">" -> <<"&", "g", "t", ";">>
      [] c = "\"" -> <<"&", "q", "u", "o", "t", ";">>
      [] c = "'" -> <<"&", "#", "x", "2", "7", ";">>
      [] OTHER -> <<c>>

\* html.escape(s): every character replaced by its entity, in order.
RECURSIVE html_escape(_)
html_escape(s) ==
    IF Len(s) = 0 THEN <<>>
    ELSE IF Len(s) = 1 THEN escape_char(s[1])
    ELSE LET h == Len(s) \div 2
         IN html_escape(SubSeq(s, 1, h)) \o html_escape(SubSeq(s, h + 1, Len(s)))

Ellipsis == <<".", ".", ".">>

\* (s[:n] + '...') if len(s) > n else s
Truncate(s, n) == IF Len(s) > n THEN SubSeq(s, 1, n) \o Ellipsis ELSE s

\* ------------------------------------------------------------- flowables

Paragraph(text, style) == [kind |-> "Paragraph", text |-> text, style |-> style]
Preformatted(text, style) == [kind |-> "Preformatted", text |-> text, style |-> style]
Spacer(tenths) == [kind |-> "Spacer", height |-> tenths]
PageBreak == [kind |-> "PageBreak"]

\* --------------------------------------------------------- table layout

\* landscape(letter) is 792 x 612 points; lengths are kept in tenths of a point.
inch == 720
page_width_l == 7920
available_width_l == page_width_l - inch
MAX_COLS_FOR_NORMAL_LAYOUT == 25
\* min_col_w_abs = 0.4 * inch
min_col_w_abs == 288

AllBlankRow(row) == \A i \in 1..Len(row) : strip(row[i]) = <<>>

\* A grid of headers alone refused as well:
PdfTableRefused_header_only(data_list) == data_list = <<>> \/ Len(data_list) = 1
\* create_pdf_table's early return: no grid, or a single row that is empty or blank.
PdfTableRefused(data_list) ==
    \/ data_list = <<>>
    \/ Len(data_list) = 1 /\ (data_list[1] = <<>> \/ AllBlankRow(data_list[1]))

\* create_pdf_table: NoElement (None) when refused, else the Table it appends to elements_list.
create_pdf_table(data_list, col_widths, table_style, cell_font_size) ==
    IF PdfTableRefused(data_list)
    THEN NoElement
    ELSE [kind |-> "Table",
          data |-> [r \in 1..Len(data_list) |->
                      [c \in 1..Len(data_list[r]) |-> html_escape(data_list[r][c])]],
          colWidths |-> col_widths,
          repeatRows |-> IF Len(data_list) > 1 THEN 1 ELSE 0,
          style |-> table_style,
          fontSize |-> cell_font_size]

MinLen(data) ==
    CHOOSE n \in {Len(data[i]) : i \in 1..Len(data)} :
        \A i \in 1..Len(data) : n <= Len(data[i])

\* The grid handed back as it came.
transpose_table_not(data) == data
\* list(map(list, zip(*data))): zip stops at the shortest row.
transpose_table(data) ==
    IF data = <<>> THEN <<>>
    ELSE [j \in 1..MinLen(data) |-> [i \in 1..Len(data) |-> data[i][j]]]

\* create_transposed_pdf_table: the Table appended, or NoElement when it returns False.
create_transposed_pdf_table(original_pdf_data, header_style, cell_font_size) ==
    IF \/ original_pdf_data = <<>>
       \/ original_pdf_data[1] = <<>>
       \/ AllBlankRow(original_pdf_data[1])
    THEN NoElement
    ELSE LET transposed_data == transpose_table(original_pdf_data)
         IN IF transposed_data = <<>> \/ transposed_data[1] = <<>>
            THEN NoElement
            ELSE create_pdf_table(transposed_data, None,
                                  <<"transposed_header_column">> \o header_style,
                                  cell_font_size)

font_size_normal(num_orig_cols) ==
    IF num_orig_cols > 18 THEN 6 ELSE IF num_orig_cols > 10 THEN 7 ELSE 8

\* Column widths of the normal layout, as exact fractions num/den of a tenth of a
\* point: max(min_col_w_abs, available_width / n) for each column, all scaled
\* by available_width / total when the total exceeds available_width.
final_col_widths(num_orig_cols, available_width) ==
    LET n == num_orig_cols
        useMin == min_col_w_abs * n > available_width
        w == IF useMin THEN [num |-> min_col_w_abs, den |-> 1]
                       ELSE [num |-> available_width, den |-> n]
        \* total = n * w ; scaled when total > available_width
        scaled == w.num * n > available_width * w.den
        f == IF scaled
             THEN [num |-> w.num * available_width * w.den, den |-> w.den * w.num * n]
             ELSE w
    IN [i \in 1..n |-> f]

\* The grid optimize_table_for_display lays out: headers (blank ones made up from
\* the first row when there are none) followed by the rows.
effective_headers(headers, rows) ==
    IF Len(headers) = 0
    THEN IF rows # <<>> /\ rows[1] # <<>>
         THEN [i \in 1..Len(rows[1]) |-> <<" ">>]
         ELSE <<>>
    ELSE headers

\* optimize_table_for_display: rendered is its return value, elements what it
\* appended to elements_list.
optimize_table_for_display(headers, rows, available_width, default_header_style) ==
    LET hdrs == effective_headers(headers, rows)
        num_orig_cols == Len(hdrs)
        pdf_data_orig == <<hdrs>> \o rows
        tbl == IF num_orig_cols <= MAX_COLS_FOR_NORMAL_LAYOUT
               THEN create_pdf_table(pdf_data_orig,
                                     final_col_widths(num_orig_cols, available_width),
                                     default_header_style,
                                     font_size_normal(num_orig_cols))
               ELSE create_transposed_pdf_table(pdf_data_orig, default_header_style, 7)
    IN IF num_orig_cols = 0 \/ PdfTableRefused(pdf_data_orig) \/ tbl = NoElement
       THEN [rendered |-> FALSE, elements |-> <<>>]
       ELSE [rendered |-> TRUE, elements |-> <<tbl>>]

\* ------------------------------------------------------------ small helpers

\* Element.get(name, default) for an attribute value that is a str or None.
Get(attr, default) == IF attr = None THEN default ELSE attr

Digits == <<"0", "1", "2", "3", "4", "5", "6", "7", "8", "9">>
DigitChars == {Digits[i] : i \in 1..10}
\* U+00B2 SUPERSCRIPT TWO, one character: str.isdigit() accepts it, int() does not.
Sup2 == "sup2"

\* str(n) for n >= 0
RECURSIVE IntStr(_)
IntStr(n) == IF n < 10 THEN <<Digits[n + 1]>> ELSE IntStr(n \div 10) \o <<Digits[(n % 10) + 1]>>

\* f"Col{i}"
ColName(i) == <<"C", "o", "l">> \o IntStr(i)

UpperCase == <<"A", "B", "C", "D", "E", "F", "G", "H", "I", "J", "K", "L", "M",
               "N", "O", "P", "Q", "R", "S", "T", "U", "V", "W", "X", "Y", "Z">>
LowerCase == <<"a", "b", "c", "d", "e", "f", "g", "h", "i", "j", "k", "l", "m",
               "n", "o", "p", "q", "r", "s", "t", "u", "v", "w", "x", "y", "z">>
lower_char(c) ==
    IF \E i \in 1..26 : UpperCase[i] = c
    THEN LowerCase[CHOOSE i \in 1..26 : UpperCase[i] = c]
    ELSE c
\* str.lower()
lower(s) == [i \in 1..Len(s) |-> lower_char(s[i])]

startswith(s, prefix) ==
    Len(s) >= Len(prefix) /\ SubSeq(s, 1, Len(prefix)) = prefix

RECURSIVE Concat(_)
Concat(seqs) == IF seqs = <<>> THEN <<>> ELSE Head(seqs) \o Concat(Tail(seqs))

\* --------------------------------------------------- primitive extractors

\* extract_metadata_properties: the (Property, Value) pairs, blank pairs skipped.
extract_metadata_properties(property_instances_element) ==
    IF property_instances_element = NoElement THEN <<>>
    ELSE LET insts == SelectSeq(property_instances_element.children,
                                LAMBDA ch : ch.tag = "propertyInstance")
             pairs == [i \in 1..Len(insts) |->
                         [Property |-> IF insts[i].property = NoElement
                                       THEN <<"N", "/", "A">>
                                       ELSE Get(insts[i].property.name, <<>>),
                          Value |-> Get(insts[i].value, <<>>)]]
         IN SelectSeq(pairs, LAMBDA it : strip(it.Property) # <<>> \/ strip(it.Value) # <<>>)

\* extract_styled_text_content: (content, content_type)
extract_styled_text_content(styled_text_element) ==
    IF styled_text_element = NoElement THEN [content |-> None, type |-> "raw"]
    ELSE IF NonBlank(styled_text_element.text)
    THEN [content |-> strip(styled_text_element.text), type |-> "text"]
    ELSE IF NonBlank(styled_text_element.data)
    THEN [content |-> strip(styled_text_element.data), type |-> "rtf"]
    ELSE [content |-> None, type |-> "raw"]

\* extract_tablesection_data: (headers, rows_data)
extract_tablesection_data(tablesection_element) ==
    IF tablesection_element = NoElement THEN [headers |-> <<>>, rows |-> <<>>]
    ELSE LET props == tablesection_element.properties
             trows == tablesection_element.tableRows
             headers == [i \in 1..Len(props) |-> Get(props[i], ColName(i))]
             num_cols_to_extract(row_cells) ==
                 IF headers # <<>> THEN Len(headers)
                 ELSE IF Len(row_cells) # 0 THEN Len(row_cells)
                 ELSE Len(trows[1])
             rows_data ==
                 [r \in 1..Len(trows) |->
                    [i \in 1..num_cols_to_extract(trows[r]) |->
                       IF i <= Len(trows[r]) THEN Get(trows[r][i], <<>>) ELSE <<>>]]
         IN [headers |-> IF headers = <<>> /\ rows_data # <<>> /\ rows_data[1] # <<>>
                         THEN [i \in 1..Len(rows_data[1]) |-> ColName(i)]
                         ELSE headers,
             rows |-> rows_data]

\* ------------------------------------------------------------- field map

\* A Python dict is a sequence of [k, v] entries in insertion order.
DictHas(d, key) == \E i \in 1..Len(d) : d[i].k = key
DictGet(d, key, default) ==
    IF DictHas(d, key) THEN d[CHOOSE i \in 1..Len(d) : d[i].k = key].v ELSE default
\* d[key] = value
DictSet(d, key, value) ==
    IF DictHas(d, key)
    THEN [i \in 1..Len(d) |-> IF d[i].k = key THEN [k |-> key, v |-> value] ELSE d[i]]
    ELSE Append(d, [k |-> key, v |-> value])
DictKeys(d) == [i \in 1..Len(d) |-> d[i].k]

\* "Media Equilibration and Readiness for Vial Thaw"
HardcodedTableName ==
    <<"M", "e", "d", "i", "a", " ", "E", "q", "u", "i", "l", "i", "b", "r", "a", "t",
    "i", "o", "n", " ", "a", "n", "d", " ", "R", "e", "a", "d", "i", "n", "e", "s",
    "s", " ", "f", "o", "r", " ", "V", "i", "a", "l", " ", "T", "h", "a", "w">>

\* The fixed column map of the hardcoded table.
HardcodedTableFields == <<
    \* "F_95": "MFSR Name"
    [k |-> <<"F", "_", "9", "5">>,
     v |-> <<"M", "F", "S", "R", " ", "N", "a", "m", "e">>],
    \* "F_96": "CO2 Incubator ID/ Water Bath ID"
    [k |-> <<"F", "_", "9", "6">>,
     v |-> <<"C", "O", "2", " ", "I", "n", "c", "u", "b", "a", "t", "o", "r", " ", "I",
           "D", "/", " ", "W", "a", "t", "e", "r", " ", "B", "a", "t", "h", " ", "I",
           "D">>],
    \* "F_97": "Set Temp oC"
    [k |-> <<"F", "_", "9", "7">>,
     v |-> <<"S", "e", "t", " ", "T", "e", "m", "p", " ", "o", "C">>],
    \* "F_98": "Displayed Temp oC"
    [k |-> <<"F", "_", "9", "8">>,
     v |-> <<"D", "i", "s", "p", "l", "a", "y", "e", "d", " ", "T", "e", "m", "p", " ",
           "o", "C">>],
    \* "F_99": "Set CO2(%)"
    [k |-> <<"F", "_", "9", "9">>,
     v |-> <<"S", "e", "t", " ", "C", "O", "2", "(", "%", ")">>],
    \* "F_100": "Displayed CO2(%)"
    [k |-> <<"F", "_", "1", "0", "0">>,
     v |-> <<"D", "i", "s", "p", "l", "a", "y", "e", "d", " ", "C", "O", "2", "(", "%",
           ")">>],
    \* "F_101": "Set Relative Humidity (%)"
    [k |-> <<"F", "_", "1", "0", "1">>,
     v |-> <<"S", "e", "t", " ", "R", "e", "l", "a", "t", "i", "v", "e", " ", "H", "u",
           "m", "i", "d", "i", "t", "y", " ", "(", "%", ")">>],
    \* "F_102": "Displayed Relative Humidity (%)"
    [k |-> <<"F", "_", "1", "0", "2">>,
     v |-> <<"D", "i", "s", "p", "l", "a", "y", "e", "d", " ", "R", "e", "l", "a", "t",
           "i", "v", "e", " ", "H", "u", "m", "i", "d", "i", "t", "y", " ", "(", "%",
           ")">>],
    \* "F_103": "Set Agitation (RPM)"
    [k |-> <<"F", "_", "1", "0", "3">>,
     v |-> <<"S", "e", "t", " ", "A", "g", "i", "t", "a", "t", "i", "o", "n", " ", "(",
           "R", "P", "M", ")">>],
    \* "F_104": "Displayed agitation (RPM)"
    [k |-> <<"F", "_", "1", "0", "4">>,
     v |-> <<"D", "i", "s", "p", "l", "a", "y", "e", "d", " ", "a", "g", "i", "t", "a",
           "t", "i", "o", "n", " ", "(", "R", "P", "M", ")">>],
    \* "F_105": "Volume of Media(mL)"
    [k |-> <<"F", "_", "1", "0", "5">>,
     v |-> <<"V", "o", "l", "u", "m", "e", " ", "o", "f", " ", "M", "e", "d", "i", "a",
           "(", "m", "L", ")">>],
    \* "F_106": "Incubation St time"
    [k |-> <<"F", "_", "1", "0", "6">>,
     v |-> <<"I", "n", "c", "u", "b", "a", "t", "i", "o", "n", " ", "S", "t", " ", "t",
           "i", "m", "e">>],
    \* "F_107": "Incubation End Time"
    [k |-> <<"F", "_", "1", "0", "7">>,
     v |-> <<"I", "n", "c", "u", "b", "a", "t", "i", "o", "n", " ", "E", "n", "d", " ",
           "T", "i", "m", "e">>],
    \* "F_108": "Incubation Duration"
    [k |-> <<"F", "_", "1", "0", "8">>,
     v |-> <<"I", "n", "c", "u", "b", "a", "t", "i", "o", "n", " ", "D", "u", "r", "a",
           "t", "i", "o", "n">>]
    >>

FPrefix == <<"F", "_">>

\* HIERARCHY_TABLE_COLUMN_MAPPINGS after lines 231-239: emptied, then the
\* hardcoded table registered.
MappingsAfterReset == <<[k |-> HardcodedTableName, v |-> HardcodedTableFields]>>

\* Lines 254-259 for one field element of a table already registered.
register_field(mappings, table_name_attr, field_elem) ==
    IF field_elem.key # None /\ field_elem.key # <<>>
       /\ field_elem.name # None /\ field_elem.name # <<>>
    THEN DictSet(mappings, table_name_attr,
                 DictSet(DictGet(mappings, table_name_attr, <<>>),
                         FPrefix \o field_elem.key, field_elem.name))
    ELSE mappings

\* Lines 252-253: a table name not yet registered gets an empty column map.
register_table_name(mappings, table_name_attr) ==
    IF ~DictHas(mappings, table_name_attr)
    THEN DictSet(mappings, table_name_attr, <<>>)
    ELSE mappings

RECURSIVE register_fields(_, _, _)
register_fields(mappings, table_name_attr, field_elems) ==
    IF field_elems = <<>> THEN mappings
    ELSE register_fields(register_field(mappings, table_name_attr, Head(field_elems)),
                         table_name_attr, Tail(field_elems))

\* Lines 250-259 for one table element.
register_table(mappings, table_elem) ==
    IF table_elem.name = None \/ table_elem.name = <<>>
    THEN mappings
    ELSE register_fields(register_table_name(mappings, table_elem.name),
                         table_elem.name, table_elem.fields)

RECURSIVE register_tables(_, _)
register_tables(mappings, table_elems) ==
    IF table_elems = <<>> THEN mappings
    ELSE register_tables(register_table(mappings, Head(table_elems)), Tail(table_elems))

\* Lines 242-261 for one schema file: a missing file is skipped, one that does
\* not parse registers nothing, else every protocolVersion/table is registered.
load_schema_file(mappings, file) ==
    IF file.state = "ok" THEN register_tables(mappings, file.tables) ELSE mappings

RECURSIVE load_schema_files(_, _, _)
load_schema_files(mappings, paths, disk) ==
    IF paths = <<>> THEN mappings
    ELSE load_schema_files(load_schema_file(mappings, disk[Head(paths)]), Tail(paths), disk)

\* load_column_mappings_from_schema_files: the value it leaves in the global
\* HIERARCHY_TABLE_COLUMN_MAPPINGS.  paths are the config's file paths in dict
\* order, disk maps a path to the file found there.
load_column_mappings_from_schema_files(paths, disk) ==
    load_schema_files(MappingsAfterReset, paths, disk)

\* Line 231 with the name bound to `previous` on entry: the assignment binds it to
\* a new, empty dict.  Keeping what was there instead:
mappings_kept(previous) == previous
mappings_reset(previous) == <<>>

\* load_column_mappings_from_schema_files called when the global holds
\* `previous`, left there by the calls before it.
reload_column_mappings(previous, paths, disk) ==
    load_schema_files(DictSet(mappings_reset(previous), HardcodedTableName,
                              HardcodedTableFields),
                      paths, disk)

\* ------------------------------------------------------- hierarchy tables

\* The distinct elements of seq, in first-seen order.
RECURSIVE Distinct(_)
Distinct(seq) ==
    IF seq = <<>> THEN <<>>
    ELSE LET init == Distinct(SubSeq(seq, 1, Len(seq) - 1))
             last == seq[Len(seq)]
         IN IF \E i \in 1..Len(init) : init[i] = last THEN init ELSE Append(init, last)

\* x.split('_')[1] for a tag that contains an underscore: the text between the
\* first underscore and the next one (or the end).
RECURSIVE UpToUnderscore(_)
UpToUnderscore(s) ==
    IF s = <<>> \/ Head(s) = "_" THEN <<>> ELSE <<Head(s)>> \o UpToUnderscore(Tail(s))
RECURSIVE AfterUnderscore(_)
AfterUnderscore(s) ==
    IF s = <<>> THEN <<>>
    ELSE IF Head(s) = "_" THEN Tail(s) ELSE AfterUnderscore(Tail(s))
HasUnderscore(s) == \E i \in 1..Len(s) : s[i] = "_"
KeySuffix(tag) == UpToUnderscore(AfterUnderscore(tag))

\* str.isdigit(): not empty and every character a digit (U+00B2 is one).
isdigit(s) == s # <<>> /\ \A i \in 1..Len(s) : s[i] \in DigitChars \cup {Sup2}
\* int(s) raises ValueError unless every character is a decimal digit.
IntRaises(s) == s = <<>> \/ \E i \in 1..Len(s) : s[i] \notin DigitChars
DigitValue(c) == (CHOOSE i \in 1..10 : Digits[i] = c) - 1
RECURSIVE IntOf(_)
IntOf(s) ==
    IF s = <<>> THEN 0 ELSE IntOf(SubSeq(s, 1, Len(s) - 1)) * 10 + DigitValue(s[Len(s)])

\* The sort key of line 353.
SortKeyRaises(tag) == HasUnderscore(tag) /\ isdigit(KeySuffix(tag)) /\ IntRaises(KeySuffix(tag))
SortKey(tag) ==
    IF HasUnderscore(tag) /\ isdigit(KeySuffix(tag)) THEN IntOf(KeySuffix(tag)) ELSE 9999

\* list.sort(key=...) is stable: insertion behind every element with a key <= .
RECURSIVE SortedByKey(_)
SortedByKey(tags) ==
    IF tags = <<>> THEN <<>>
    ELSE LET init == SortedByKey(SubSeq(tags, 1, Len(tags) - 1))
             last == tags[Len(tags)]
             n == Cardinality({i \in 1..Len(init) : SortKey(init[i]) <= SortKey(last)})
         IN SubSeq(init, 1, n) \o <<last>> \o SubSeq(init, n + 1, Len(init))

DefaultHierarchyTableName ==
    <<"U", "n", "n", "a", "m", "e", "d", " ", "H", "i", "e", "r", "a", "r", "c", "h", "y",
      " ", "T", "a", "b", "l", "e">>

\* Every child tag of every row, in document order.
RowTags(all_rows_elements) ==
    Concat([r \in 1..Len(all_rows_elements) |->
              [c \in 1..Len(all_rows_elements[r]) |-> all_rows_elements[r][c].tag]])

\* The header tags with the fallback of line 351 taken whenever no row tag is
\* mapped, rows or not.
final_internal_header_tags_rows_or_not(table_elem, table_specific_mappings) ==
    LET from_data == SelectSeq(Distinct(RowTags(table_elem.rows)),
                               LAMBDA tag : DictHas(table_specific_mappings, tag))
    IN IF from_data = <<>> /\ table_specific_mappings # <<>>
       THEN SortedByKey(SelectSeq(DictKeys(table_specific_mappings),
                                  LAMBDA tag : startswith(tag, FPrefix)))
       ELSE from_data
\* The header tags one hierarchy table is extracted with (lines 339-353), given
\* the column map looked up for its name.
final_internal_header_tags(table_elem, table_specific_mappings) ==
    LET from_data == SelectSeq(Distinct(RowTags(table_elem.rows)),
                               LAMBDA tag : DictHas(table_specific_mappings, tag))
    IN IF from_data = <<>> /\ table_elem.rows = <<>> /\ table_specific_mappings # <<>>
       THEN SortedByKey(SelectSeq(DictKeys(table_specific_mappings),
                                  LAMBDA tag : startswith(tag, FPrefix)))
       ELSE from_data

\* Whether the sort of line 353 raises ValueError for this table.
hierarchy_table_raises(table_elem, table_specific_mappings) ==
    /\ table_elem.rows = <<>>
    /\ table_specific_mappings # <<>>
    /\ \E i \in 1..Len(table_specific_mappings) :
          /\ startswith(table_specific_mappings[i].k, FPrefix)
          /\ SortKeyRaises(table_specific_mappings[i].k)

\* row_elem.find(ht): the first child with that tag.
RowFind(row_elem, ht) ==
    IF \E c \in 1..Len(row_elem) : row_elem[c].tag = ht
    THEN row_elem[CHOOSE c \in 1..Len(row_elem) :
                     row_elem[c].tag = ht /\ \A d \in 1..(c - 1) : row_elem[d].tag # ht]
    ELSE NoElement

\* Lines 337-367 for one table element: the tables it adds to tables_content
\* (none or one).  mappings is the value of HIERARCHY_TABLE_COLUMN_MAPPINGS read
\* at line 338.
extract_hierarchy_table(table_elem, mappings) ==
    LET table_name_xml == Get(table_elem.name, DefaultHierarchyTableName)
        table_specific_mappings == DictGet(mappings, table_name_xml, <<>>)
        tags == final_internal_header_tags(table_elem, table_specific_mappings)
    IN IF tags = <<>> THEN <<>>
       ELSE <<[name |-> table_name_xml,
               headers |-> [i \in 1..Len(tags) |-> DictGet(table_specific_mappings, tags[i], None)],
               rows |-> [r \in 1..Len(table_elem.rows) |->
                           [i \in 1..Len(tags) |->
                              LET cell == RowFind(table_elem.rows[r], tags[i])
                              IN IF cell # NoElement /\ cell.text # None /\ cell.text # <<>>
                                 THEN strip(cell.text) ELSE <<>>]]]>>

\* extract_hierarchy_data_tables: raised when the call ends in an exception,
\* else tables is what it returns.
extract_hierarchy_data_tables(hierarchy_data_element, mappings) ==
    IF hierarchy_data_element = NoElement THEN [raised |-> FALSE, tables |-> <<>>]
    ELSE LET tbls == hierarchy_data_element.tables
             name(i) == Get(tbls[i].name, DefaultHierarchyTableName)
         IN IF \E i \in 1..Len(tbls) :
                  hierarchy_table_raises(tbls[i], DictGet(mappings, name(i), <<>>))
            THEN [raised |-> TRUE, tables |-> <<>>]
            ELSE [raised |-> FALSE,
                  tables |-> Concat([i \in 1..Len(tbls) |->
                                       extract_hierarchy_table(tbls[i], mappings)])]

\* ------------------------------------------------------ Excel extraction

\* str(cell if cell is not None else "")
CellStr(cell) == Get(cell, <<>>)
StrippedRow(row_tuple) == [i \in 1..Len(row_tuple) |-> strip(CellStr(row_tuple[i]))]

\* _is_empty_row: every value is the empty string.
is_empty_row(row_str_values) == \A i \in 1..Len(row_str_values) : row_str_values[i] = <<>>

\* cell_val.replace('.', '', 1): the first '.' removed.
RECURSIVE RemoveFirstDot(_)
RemoveFirstDot(s) ==
    IF s = <<>> THEN <<>>
    ELSE IF Head(s) = "." THEN Tail(s) ELSE <<Head(s)>> \o RemoveFirstDot(Tail(s))

\* A non-empty value that is not numeric-looking.
TextLike(cell_val) == cell_val # <<>> /\ ~isdigit(RemoveFirstDot(cell_val))

CountIn(seq, Test(_)) == Cardinality({i \in 1..Len(seq) : Test(seq[i])})

\* The loop of lines 121-138: the 0-based index of the header row, -1 when the
\* loop ends without one.  header_row_idx is the variable's value on entry of
\* iteration i (the loop breaks as soon as it is set).
RECURSIVE header_scan(_, _, _)
header_scan(row_block, i, header_row_idx) ==
    IF i >= Len(row_block) THEN header_row_idx
    ELSE LET current_row_str_values == StrippedRow(row_block[i + 1])
             non_empty_cell_count ==
                 CountIn(current_row_str_values, LAMBDA v : v # <<>>)
             num_potential_text_headers == CountIn(current_row_str_values, TextLike)
         IN IF is_empty_row(current_row_str_values)
            THEN header_scan(row_block, i + 1, header_row_idx)
            ELSE IF /\ \/ non_empty_cell_count > 1
                       \/ non_empty_cell_count = 1 /\ header_row_idx = -1
                    /\ \/ /\ non_empty_cell_count > 0
                          \* num_potential_text_headers / non_empty_cell_count >= 0.5
                          /\ 2 * num_potential_text_headers >= non_empty_cell_count
                       \/ header_row_idx = -1
                 THEN i
                 ELSE header_scan(row_block, i + 1, header_row_idx)

\* " ".join(filter(None, parts))
RECURSIVE JoinNonEmpty(_)
JoinNonEmpty(parts) ==
    IF parts = <<>> THEN <<>>
    ELSE LET rest == JoinNonEmpty(Tail(parts))
         IN IF Head(parts) = <<>> THEN rest
            ELSE IF rest = <<>> THEN Head(parts)
            ELSE Head(parts) \o <<" ">> \o rest

\* Lines 143-151: the nearest non-blank row above the header row, joined.
RECURSIVE potential_title(_, _)
potential_title(row_block, i) ==
    IF i < 0 THEN <<>>
    ELSE LET title_row_parts == StrippedRow(row_block[i + 1])
         IN IF ~is_empty_row(title_row_parts)
            THEN JoinNonEmpty(title_row_parts)
            ELSE potential_title(row_block, i - 1)

\* f"Table {n}"
TablePrefix == <<"T", "a", "b", "l", "e", " ">>
DefaultTableTitle(n) == TablePrefix \o IntStr(n)

\* 1 + the index of the last non-blank cell of a row, 0 when it has none.
MaxColOfRow(row_tuple) ==
    LET used == {c \in 1..Len(row_tuple) : strip(CellStr(row_tuple[c])) # <<>>}
    IN IF used = {} THEN 0 ELSE CHOOSE c \in used : \A d \in used : d <= c

\* The 0-based index of the first non-blank cell among the first n, n when none.
FirstContentCol(row_tuple, n) ==
    LET lim == IF Len(row_tuple) < n THEN Len(row_tuple) ELSE n
        used == {c \in 1..lim : strip(CellStr(row_tuple[c])) # <<>>}
    IN IF used = {} THEN n ELSE (CHOOSE c \in used : \A d \in used : c <= d) - 1

MinOf(a, b) == IF a < b THEN a ELSE b
MaxOf(a, b) == IF a > b THEN a ELSE b

\* The data-row loop of _find_actual_content_start_column (lines 67-74).
RECURSIVE content_start_over_rows(_, _, _)
content_start_over_rows(rows, max_cols_to_check, min_content_col_idx) ==
    IF rows = <<>> \/ min_content_col_idx = 0 THEN min_content_col_idx
    ELSE content_start_over_rows(
             Tail(rows), max_cols_to_check,
             MinOf(min_content_col_idx, FirstContentCol(Head(rows), max_cols_to_check)))

SampleRows == 5

\* _find_actual_content_start_column
find_actual_content_start_column(header_row_tuple, data_row_tuples_block, max_cols_to_check) ==
    LET from_header == IF header_row_tuple # <<>>
                       THEN FirstContentCol(header_row_tuple, max_cols_to_check)
                       ELSE max_cols_to_check
        sample == SubSeq(data_row_tuples_block, 1,
                         MinOf(SampleRows, Len(data_row_tuples_block)))
        min_content_col_idx == content_start_over_rows(sample, max_cols_to_check, from_header)
    IN IF min_content_col_idx < max_cols_to_check THEN min_content_col_idx ELSE 0

\* row[start:stop] of a tuple (0-based, stop exclusive), each cell through str().
SliceStr(row_tuple, start, stop) ==
    LET hi == MinOf(stop, Len(row_tuple))
    IN IF start >= hi THEN <<>>
       ELSE [i \in 1..(hi - start) |-> CellStr(row_tuple[start + i])]

\* h.startswith("Col") and h[3:].isdigit()
LooksSynthesized(h) ==
    startswith(h, <<"C", "o", "l">>) /\ isdigit(SubSeq(h, 4, Len(h)))

NoTable == [kind |-> "None"]

\* Lines 202-227 of _process_active_table_block: what is returned for the
\* trimmed headers and rows.
finished_table(headers2, rows2, table_title) ==
    LET \* lines 213-215: all-blank headers over data become Col1..Coln
        final_headers ==
            IF headers2 # <<>> /\ AllBlankRow(headers2) /\ rows2 # <<>> /\ rows2[1] # <<>>
            THEN [j \in 1..Len(rows2[1]) |-> ColName(j)]
            ELSE headers2
    IN IF final_headers = <<>> /\ rows2 = <<>> THEN NoTable
       ELSE IF rows2 = <<>>
               /\ \A i \in 1..Len(final_headers) : LooksSynthesized(final_headers[i])
       THEN NoTable
       ELSE [kind |-> "table", table_title |-> strip(table_title),
             headers |-> final_headers, rows |-> rows2]

\* lines 202-211: synthesized headers give way to a text-like first row
promoted_table(trimmed_headers, trimmed_rows, table_title) ==
    LET promote ==
            /\ trimmed_rows # <<>> /\ trimmed_headers # <<>>
            /\ \A i \in 1..Len(trimmed_headers) : LooksSynthesized(trimmed_headers[i])
            /\ trimmed_rows[1] # <<>>
            \* num_text_like_cells / len(final_headers) > 0.6
            /\ 10 * CountIn(trimmed_rows[1],
                             LAMBDA v : strip(v) # <<>> /\ ~isdigit(RemoveFirstDot(v)))
                  > 6 * Len(trimmed_headers)
            /\ trimmed_headers # trimmed_rows[1]
    IN finished_table(IF promote THEN trimmed_rows[1] ELSE trimmed_headers,
                      IF promote THEN Tail(trimmed_rows) ELSE trimmed_rows,
                      table_title)

\* lines 180-200: the columns from actual_content_start_col to overall_max_cols
trimmed_table(raw_header_tuple_for_processing, data_tuples, overall_max_cols, actual_content_start_col, table_title) ==
    IF raw_header_tuple_for_processing = <<>>
       /\ overall_max_cols - actual_content_start_col <= 0 THEN NoTable
    ELSE promoted_table(
             IF raw_header_tuple_for_processing # <<>>
             THEN SliceStr(raw_header_tuple_for_processing, actual_content_start_col,
                           overall_max_cols)
             ELSE [j \in 1..(overall_max_cols - actual_content_start_col) |-> ColName(j)],
             SelectSeq([r \in 1..Len(data_tuples) |->
                          SliceStr(data_tuples[r], actual_content_start_col,
                                   overall_max_cols)],
                       LAMBDA row : ~is_empty_row([i \in 1..Len(row) |-> strip(row[i])])),
             table_title)

\* lines 157-178
located_table(raw_header_tuple_for_processing, data_tuples, overall_max_cols, table_title) ==
    IF overall_max_cols = 0 THEN NoTable
    ELSE trimmed_table(raw_header_tuple_for_processing, data_tuples, overall_max_cols,
                       find_actual_content_start_column(raw_header_tuple_for_processing,
                                                        data_tuples, overall_max_cols),
                       table_title)

RECURSIVE max_cols_from_data(_)
max_cols_from_data(data_tuples) ==
    IF data_tuples = <<>> THEN 0
    ELSE MaxOf(MaxColOfRow(Head(data_tuples)), max_cols_from_data(Tail(data_tuples)))

\* The default title without the count of the tables before it:
table_title_of_first(potential_title_str, table_index_in_sheet) ==
    IF potential_title_str # <<>> THEN potential_title_str ELSE DefaultTableTitle(1)
\* lines 143-152: the title is the nearest non-blank row above the header row,
\* "Table n" without one
table_title_of(potential_title_str, table_index_in_sheet) ==
    IF potential_title_str # <<>> THEN potential_title_str
    ELSE DefaultTableTitle(table_index_in_sheet + 1)

headed_table(row_block, table_index_in_sheet, header_row_idx) ==
    IF row_block = <<>> \/ header_row_idx = -1 THEN NoTable
    ELSE located_table(
             row_block[header_row_idx + 1],
             SubSeq(row_block, header_row_idx + 2, Len(row_block)),
             MaxOf(MaxColOfRow(row_block[header_row_idx + 1]),
                   max_cols_from_data(SubSeq(row_block, header_row_idx + 2,
                                             Len(row_block)))),
             table_title_of(IF header_row_idx > 0
                            THEN potential_title(row_block, header_row_idx - 1)
                            ELSE <<>>,
                            table_index_in_sheet))

\* _process_active_table_block: NoTable when it returns None.
process_active_table_block(row_block, table_index_in_sheet) ==
    headed_table(row_block, table_index_in_sheet, header_scan(row_block, 0, -1))

\* What one flush of the active block adds to current_sheet_tables (lines 396-403
\* and 410-416).
flushed(active_table_block_raw_rows, current_sheet_tables, table_data) ==
    IF active_table_block_raw_rows # <<>> /\ table_data # NoTable
       /\ (table_data.headers # <<>> \/ table_data.rows # <<>>)
    THEN Append(current_sheet_tables,
                [table_title |-> table_data.table_title,
                 headers |-> table_data.headers, rows |-> table_data.rows])
    ELSE current_sheet_tables
flush_block(active_table_block_raw_rows, current_sheet_tables) ==
    flushed(active_table_block_raw_rows, current_sheet_tables,
            process_active_table_block(active_table_block_raw_rows,
                                       Len(current_sheet_tables)))

\* The row loop of lines 389-416: rows are gathered into the active block, which
\* is flushed at every blank row and at the end of the sheet.
RECURSIVE sheet_tables(_, _, _)
sheet_tables(all_rows_in_sheet_raw, active_table_block_raw_rows, current_sheet_tables) ==
    IF all_rows_in_sheet_raw = <<>>
    THEN flush_block(active_table_block_raw_rows, current_sheet_tables)
    ELSE IF is_empty_row(StrippedRow(Head(all_rows_in_sheet_raw)))
    THEN sheet_tables(Tail(all_rows_in_sheet_raw), <<>>,
                      flush_block(active_table_block_raw_rows, current_sheet_tables))
    ELSE sheet_tables(Tail(all_rows_in_sheet_raw),
                      Append(active_table_block_raw_rows, Head(all_rows_in_sheet_raw)),
                      current_sheet_tables)

\* Lines 395 and 409, `if active_table_block_raw_rows:`: what a flush adds to the
\* blocks handed to _process_active_table_block.  Handing every block over,
\* empty or not:
block_flushed_always(active_table_block_raw_rows, blocks) ==
    Append(blocks, active_table_block_raw_rows)
block_flushed(active_table_block_raw_rows, blocks) ==
    IF active_table_block_raw_rows # <<>>
    THEN Append(blocks, active_table_block_raw_rows)
    ELSE blocks

\* The row loop of lines 389-416 again: the row blocks it hands to
\* _process_active_table_block (lines 396 and 410), in order.
RECURSIVE sheet_blocks(_, _, _)
sheet_blocks(all_rows_in_sheet_raw, active_table_block_raw_rows, blocks) ==
    IF all_rows_in_sheet_raw = <<>>
    THEN block_flushed(active_table_block_raw_rows, blocks)
    ELSE IF is_empty_row(StrippedRow(Head(all_rows_in_sheet_raw)))
    THEN sheet_blocks(Tail(all_rows_in_sheet_raw), <<>>,
                      block_flushed(active_table_block_raw_rows, blocks))
    ELSE sheet_blocks(Tail(all_rows_in_sheet_raw),
                      Append(active_table_block_raw_rows, Head(all_rows_in_sheet_raw)),
                      blocks)

\* "Error Processing Excel File"
ExcelErrorSheetName ==
    <<"E", "r", "r", "o", "r", " ", "P", "r", "o", "c", "e", "s", "s", "i", "n", "g",
    " ", "E", "x", "c", "e", "l", " ", "F", "i", "l", "e">>
\* "Extraction Error"
ExcelErrorTitle ==
    <<"E", "x", "t", "r", "a", "c", "t", "i", "o", "n", " ", "E", "r", "r", "o", "r">>
\* "Could not process Excel file: "
ExcelErrorPrefix ==
    <<"C", "o", "u", "l", "d", " ", "n", "o", "t", " ", "p", "r", "o", "c", "e", "s",
    "s", " ", "E", "x", "c", "e", "l", " ", "f", "i", "l", "e", ":", " ">>
\* The sheet appended by the except clause of lines 424-434.
ExcelErrorSheet(e) ==
    [sheet_name |-> ExcelErrorSheetName,
     tables |-> <<[table_title |-> ExcelErrorTitle,
                   headers |-> << <<"E", "r", "r", "o", "r">> >>,
                   rows |-> << <<ExcelErrorPrefix \o e>> >>]>>]

\* The sheet loop of lines 377-422.  A sheet whose rows cannot be read raises:
\* the sheets gathered before it stay and the error sheet follows them.
with_sheet(all_sheets_data_container, sheet_name, current_sheet_tables) ==
    IF current_sheet_tables # <<>>
    THEN Append(all_sheets_data_container,
                [sheet_name |-> sheet_name, tables |-> current_sheet_tables])
    ELSE all_sheets_data_container
RECURSIVE excel_sheets(_, _)
excel_sheets(sheets, all_sheets_data_container) ==
    IF sheets = <<>> THEN all_sheets_data_container
    ELSE IF ~Head(sheets).readable
    THEN Append(all_sheets_data_container, ExcelErrorSheet(Head(sheets).error))
    ELSE excel_sheets(Tail(sheets),
                      with_sheet(all_sheets_data_container, Head(sheets).sheet_name,
                                 sheet_tables(Head(sheets).rows, <<>>, <<>>)))

\* extract_excel_data_from_base64.  workbook is what base64.b64decode and
\* openpyxl.load_workbook make of the string: they raise (loads is FALSE) or give
\* the sheets.
extract_excel_data_from_base64(workbook) ==
    IF ~workbook.loads THEN <<ExcelErrorSheet(workbook.error)>>
    ELSE excel_sheets(workbook.sheets, <<>>)

\* ------------------------------------------------------- Word extraction

\* U+0060 GRAVE ACCENT, one character.
Backtick == "backtick"
\* "Skipped Word document: python-docx library not found. Please install it
\* (`pip install python-docx`)."
SkippedNoLibrary ==
    <<"S", "k", "i", "p", "p", "e", "d", " ", "W", "o", "r", "d", " ", "d", "o", "c",
    "u", "m", "e", "n", "t", ":", " ", "p", "y", "t", "h", "o", "n", "-", "d", "o",
    "c", "x", " ", "l", "i", "b", "r", "a", "r", "y", " ", "n", "o", "t", " ", "f",
    "o", "u", "n", "d", ".", " ", "P", "l", "e", "a", "s", "e", " ", "i", "n", "s",
    "t", "a", "l", "l", " ", "i", "t", " ", "(", Backtick, "p", "i", "p", " ", "i", "n",
    "s", "t", "a", "l", "l", " ", "p", "y", "t", "h", "o", "n", "-", "d", "o", "c",
    "x", Backtick, ")", ".">>
\* "Skipped Word document: No content provided."
SkippedNoContent ==
    <<"S", "k", "i", "p", "p", "e", "d", " ", "W", "o", "r", "d", " ", "d", "o", "c",
    "u", "m", "e", "n", "t", ":", " ", "N", "o", " ", "c", "o", "n", "t", "e", "n",
    "t", " ", "p", "r", "o", "v", "i", "d", "e", "d", ".">>
\* "Error extracting text from Word document: "
WordErrorPrefix ==
    <<"E", "r", "r", "o", "r", " ", "e", "x", "t", "r", "a", "c", "t", "i", "n", "g",
    " ", "t", "e", "x", "t", " ", "f", "r", "o", "m", " ", "W", "o", "r", "d", " ",
    "d", "o", "c", "u", "m", "e", "n", "t", ":", " ">>
\* "skipped word document:"
SkippedMarker ==
    <<"s", "k", "i", "p", "p", "e", "d", " ", "w", "o", "r", "d", " ", "d", "o", "c",
    "u", "m", "e", "n", "t", ":">>
\* "error extracting text"
ErrorMarker ==
    <<"e", "r", "r", "o", "r", " ", "e", "x", "t", "r", "a", "c", "t", "i", "n", "g",
    " ", "t", "e", "x", "t">>
WordErrorLimit == 100

\* '\n'.join(full_text)
RECURSIVE JoinLines(_)
JoinLines(paras) ==
    IF paras = <<>> THEN <<>>
    ELSE IF Len(paras) = 1 THEN paras[1]
    ELSE paras[1] \o <<"\n">> \o JoinLines(Tail(paras))

\* extract_word_text_from_base64.  docx_available is whether python-docx was
\* imported; document is what b64decode and docx.Document make of the string.
extract_word_text_from_base64(base64_string, document, docx_available) ==
    IF ~docx_available THEN SkippedNoLibrary
    ELSE IF base64_string = None \/ base64_string = <<>> THEN SkippedNoContent
    ELSE IF ~document.loads
    THEN WordErrorPrefix
         \o SubSeq(document.error, 1, MinOf(WordErrorLimit, Len(document.error)))
         \o Ellipsis
    ELSE JoinLines(document.paragraphs)

\* ------------------------------------------------------- checklist text

\* U+25A0 BLACK SQUARE, one character.
BlackSquare == "blacksquare"

LetterChars == {UpperCase[i] : i \in 1..26} \cup {LowerCase[i] : i \in 1..26}
\* [A-Za-z0-9\s\(\)\.\-]
IdChars == LetterChars \cup DigitChars \cup Whitespace \cup {"(", ")", ".", "-"}
\* [A-Z\s/], with re.IGNORECASE when ignorecase
StatusChars(ignorecase) ==
    {UpperCase[i] : i \in 1..26} \cup Whitespace \cup {"/"}
    \cup (IF ignorecase THEN {LowerCase[i] : i \in 1..26} ELSE {})

\* Whether all of s matches \s*■?\s*(\[[A-Z\s/]+\])\s*■?
MatchesStatusTail(s, ignorecase) ==
    LET n == Len(s)
        e1 == IF n > 0 /\ s[n] = BlackSquare THEN n - 1 ELSE n
        e2 == Len(rstrip(SubSeq(s, 1, e1)))
        opens == {b \in 1..(e2 - 1) : s[b] = "["}
        b0 == CHOOSE b \in opens : \A c \in opens : c <= b
    IN /\ e2 >= 1 /\ s[e2] = "]"
       /\ opens # {}
       /\ e2 - b0 >= 2
       /\ \A i \in (b0 + 1)..(e2 - 1) : s[i] \in StatusChars(ignorecase)
       /\ \A i \in 1..(b0 - 1) : s[i] \in Whitespace \cup {BlackSquare}
       /\ Cardinality({i \in 1..(b0 - 1) : s[i] = BlackSquare}) <= 1

\* re.search of the trailing status token: the leftmost start (1-based) from
\* which the rest of s is a status token, 0 when there is none.
StatusStart(s, ignorecase) ==
    LET starts == {i \in 1..Len(s) : MatchesStatusTail(SubSeq(s, i, Len(s)), ignorecase)}
    IN IF starts = {} THEN 0 ELSE CHOOSE i \in starts : \A j \in starts : i <= j

\* s with its trailing status token (if any) cut off.
WithoutStatus(s, ignorecase) ==
    IF StatusStart(s, ignorecase) = 0 THEN s
    ELSE SubSeq(s, 1, StatusStart(s, ignorecase) - 1)

\* str.splitlines() for text whose only line break is "\n"
RECURSIVE splitlines(_)
splitlines(s) ==
    IF s = <<>> THEN <<>>
    ELSE LET breaks == {i \in 1..Len(s) : s[i] = "\n"}
             b == CHOOSE i \in breaks : \A j \in breaks : i <= j
         IN IF breaks = {} THEN <<s>>
            ELSE <<SubSeq(s, 1, b - 1)>> \o splitlines(SubSeq(s, b + 1, Len(s)))

\* The position of the first whitespace character of a line, 0 when none.
FirstWhitespace(line) ==
    LET ws == {i \in 1..Len(line) : line[i] \in Whitespace}
    IN IF ws = {} THEN 0 ELSE CHOOSE i \in ws : \A j \in ws : i <= j

\* Whether the regular expression of line 291 matches a stripped line: its first
\* word is made of id characters and something follows it.
ChecklistLineMatches(line) ==
    /\ FirstWhitespace(line) > 1
    /\ \A i \in 1..(FirstWhitespace(line) - 1) : line[i] \in IdChars

\* group(1) and group(2) of that match: the lazy first group is the first word,
\* the lazy second group the shortest text after which only a status token (or
\* nothing) is left.
ChecklistGroup1(line) == SubSeq(line, 1, FirstWhitespace(line) - 1)
ChecklistGroup2(line) ==
    LET rest == lstrip(SubSeq(line, FirstWhitespace(line), Len(line)))
        ends == {j \in 1..Len(rest) :
                    j = Len(rest) \/ MatchesStatusTail(SubSeq(rest, j + 1, Len(rest)), FALSE)}
    IN SubSeq(rest, 1, CHOOSE j \in ends : \A k \in ends : j <= k)

HeaderLikeIds ==
    {<<"s", ".", " ", "n", "o", ".">>,
     <<"s", ".", "n", "o">>,
     <<"s", "r", ".", " ", "n", "o", ".">>,
     <<"s", "r", ".", "n", "o">>,
     <<"c", "h", "e", "c", "k", "s">>,
     <<"c", "o", "m", "p", "l", "i", "a", "n", "c", "e">>}

HasBlackSquare(line) == \E i \in 1..Len(line) : line[i] = BlackSquare
FirstBlackSquare(line) ==
    CHOOSE i \in 1..Len(line) :
        line[i] = BlackSquare /\ \A j \in 1..(i - 1) : line[j] # BlackSquare

\* description.replace("■", " ")
SquaresToSpaces(s) == [i \in 1..Len(s) |-> IF s[i] = BlackSquare THEN " " ELSE s[i]]

\* Lines 289-309 for one line of the text: descriptions after it.
checklist_line(descriptions, raw_line) ==
    LET line == strip(raw_line)
    IN IF line = <<>> THEN descriptions
       ELSE IF ChecklistLineMatches(line)
       THEN LET item_id == strip(ChecklistGroup1(line))
                description == strip(WithoutStatus(strip(ChecklistGroup2(line)), TRUE))
            IN IF lower(item_id) \notin HeaderLikeIds
               THEN DictSet(descriptions, item_id, description)
               ELSE descriptions
       ELSE IF HasBlackSquare(line)
       THEN LET item_id == strip(SubSeq(line, 1, FirstBlackSquare(line) - 1))
                description_full == strip(SubSeq(line, FirstBlackSquare(line) + 1, Len(line)))
                description ==
                    strip(SquaresToSpaces(strip(WithoutStatus(description_full, TRUE))))
            IN IF item_id # <<>> /\ lower(item_id) \notin HeaderLikeIds
               THEN DictSet(descriptions, item_id, description)
               ELSE descriptions
       ELSE descriptions

RECURSIVE checklist_lines(_, _)
checklist_lines(descriptions, lines) ==
    IF lines = <<>> THEN descriptions
    ELSE checklist_lines(checklist_line(descriptions, Head(lines)), Tail(lines))

\* parse_checklist_text_content: the dict item id -> description.
parse_checklist_text_content(text_content) ==
    IF text_content = None \/ text_content = <<>> THEN <<>>
    ELSE checklist_lines(<<>>, splitlines(text_content))

\* s.rstrip('.')
RECURSIVE rstrip_dots(_)
rstrip_dots(s) ==
    IF s # <<>> /\ s[Len(s)] = "." THEN rstrip_dots(SubSeq(s, 1, Len(s) - 1)) ELSE s
\* key.rstrip('.').strip()
NormKey(key) == strip(rstrip_dots(key))

AbsDiff(a, b) == IF a > b THEN a - b ELSE b - a
FuzzyLimit == 4

\* The first entry of a dict that satisfies Test, as a one-element sequence.
FirstEntry(d, Test(_)) ==
    LET hits == {i \in 1..Len(d) : Test(d[i])}
    IN IF hits = {} THEN <<>> ELSE <<d[CHOOSE i \in hits : \A j \in hits : i <= j]>>

\* Lines 644-655: the description found for a checklist property, <<>> (falsy)
\* when there is none: exact key, then key without trailing dots, then a key
\* that is a prefix of the other with lengths less than 4 apart.
checklist_description(descriptions, prop_key_original) ==
    LET exact == DictGet(descriptions, prop_key_original, <<>>)
        norm == FirstEntry(descriptions,
                           LAMBDA e : NormKey(e.k) = NormKey(prop_key_original))
        d2 == IF exact # <<>> THEN exact
              ELSE IF norm # <<>> THEN norm[1].v ELSE <<>>
        fuzzy == FirstEntry(descriptions,
                            LAMBDA e :
                                /\ \/ startswith(NormKey(prop_key_original), NormKey(e.k))
                                   \/ startswith(NormKey(e.k), NormKey(prop_key_original))
                                /\ AbsDiff(Len(NormKey(prop_key_original)), Len(NormKey(e.k)))
                                      < FuzzyLimit)
    IN IF d2 # <<>> THEN d2
       ELSE IF fuzzy # <<>> THEN fuzzy[1].v ELSE <<>>

\* The Status cell left as the value is.
checklist_status_raw(item_value) == item_value
\* Lines 657-660 and 667-670: the Status cell of a checklist row.
checklist_status(item_value) ==
    IF item_value = <<"f", "a", "l", "s", "e">>
    THEN <<"N", "o", "t", " ", "C", "o", "m", "p", "l", "e", "t", "e", "d">>
    ELSE IF item_value = <<"t", "r", "u", "e">>
    THEN <<"C", "o", "m", "p", "l", "e", "t", "e", "d">>
    ELSE IF item_value = <<>> THEN <<" ">>
    ELSE item_value

\* ----------------------------------------------------- object dispatch

\* "Unnamed Field "
UnnamedFieldPrefix ==
    <<"U", "n", "n", "a", "m", "e", "d", " ", "F", "i", "e", "l", "d", " ">>

\* "Data Table: "
DataTablePrefix ==
    <<"D", "a", "t", "a", " ", "T", "a", "b", "l", "e", ":", " ">>

\* "Content from Word Document ("
WordHeadingPrefix ==
    <<"C", "o", "n", "t", "e", "n", "t", " ", "f", "r", "o", "m", " ", "W", "o", "r",
    "d", " ", "D", "o", "c", "u", "m", "e", "n", "t", " ", "(">>

\* "):"
WordHeadingSuffix ==
    <<")", ":">>

\* "Data from Sheet: '"
SheetHeadingPrefix ==
    <<"D", "a", "t", "a", " ", "f", "r", "o", "m", " ", "S", "h", "e", "e", "t", ":",
    " ", "'">>

\* "Note: Ancillary data found with extension '"
AncillaryPrefix ==
    <<"N", "o", "t", "e", ":", " ", "A", "n", "c", "i", "l", "l", "a", "r", "y", " ",
    "d", "a", "t", "a", " ", "f", "o", "u", "n", "d", " ", "w", "i", "t", "h", " ",
    "e", "x", "t", "e", "n", "s", "i", "o", "n", " ", "'">>

\* "' for field '"
AncillaryMiddle ==
    <<"'", " ", "f", "o", "r", " ", "f", "i", "e", "l", "d", " ", "'">>

\* "'. Specific rendering not implemented."
AncillarySuffix ==
    <<"'", ".", " ", "S", "p", "e", "c", "i", "f", "i", "c", " ", "r", "e", "n", "d",
    "e", "r", "i", "n", "g", " ", "n", "o", "t", " ", "i", "m", "p", "l", "e", "m",
    "e", "n", "t", "e", "d", ".">>

\* "table "
TableTitleMarker ==
    <<"t", "a", "b", "l", "e", " ">>

\* normalized_property_table_field_identifiers
normalized_property_table_field_identifiers ==
    {<<"m", "e", "t", "a", "d", "a", "t", "a">>,
     <<"c", "h", "e", "c", "k", "l", "i", "s", "t">>,
     <<"c", "h", "e", "c", "k", " ", "l", "i", "s", "t">>,
     <<"m", "i", "x", "i", "n", "g", " ", "a", "n", "d", " ", "s", "t", "i", "r", "r", "i", "n", "g", "-", "f", "i", "l", "t", "r", "a", "t", "i", "o", "n">>,
     <<"s", "o", "p">>}

ChecklistNames == {<<"c", "h", "e", "c", "k", "l", "i", "s", "t">>,
                   <<"c", "h", "e", "c", "k", " ", "l", "i", "s", "t">>}

StyledTextLimit == 2500
WordTextLimit == 3000
AddinLimit == 2000

Kinds == <<"property", "styled", "table", "hierarchy", "document", "addin">>

\* The state of one object's dispatch: the object's buffer, the kind that
\* appended each of its blocks (by, as long as the buffer), whether content was
\* produced, the kinds whose extraction was run and whether an exception left
\* the function.
DispatchStart ==
    [buffer |-> <<>>, by |-> <<>>, produced |-> FALSE, attempted |-> {}, raised |-> FALSE]

Emit(st, kind, blocks) ==
    [st EXCEPT !.buffer = @ \o blocks,
               !.by = @ \o [i \in 1..Len(blocks) |-> kind],
               !.produced = TRUE]
Attempt(st, kind) == [st EXCEPT !.attempted = @ \cup {kind}]

\* Lines 636-674: the rows and headers of the property-list table.
property_table(metadata_list_of_dicts, normalized_field_name, descriptions) ==
    LET is_checklist_type_field == normalized_field_name \in ChecklistNames
        item(i) == metadata_list_of_dicts[i]
        desc(i) == checklist_description(descriptions, item(i).Property)
    IN IF is_checklist_type_field /\ metadata_list_of_dicts # <<>>
       THEN [headers |-> << <<"C", "h", "e", "c", "k", "l", "i", "s", "t", " ", "I", "t", "e", "m">>,
                            <<"S", "t", "a", "t", "u", "s">> >>,
             rows |-> [i \in 1..Len(metadata_list_of_dicts) |->
                         << IF descriptions # <<>> /\ desc(i) # <<>>
                            THEN item(i).Property \o <<":", " ">> \o desc(i)
                            ELSE item(i).Property,
                            checklist_status(item(i).Value) >>]]
       ELSE [headers |-> << <<"P", "r", "o", "p", "e", "r", "t", "y">>,
                            <<"V", "a", "l", "u", "e">> >>,
             rows |-> [i \in 1..Len(metadata_list_of_dicts) |->
                         <<item(i).Property, item(i).Value>>]]

\* Lines 676-680 and 702-707: the table t is laid out and, when something was
\* rendered, becomes the object's content.
emit_rendered(st, kind, r) ==
    IF r.rendered THEN Emit(Attempt(st, kind), kind, r.elements) ELSE Attempt(st, kind)
emit_table(st, kind, header_style, t) ==
    emit_rendered(st, kind,
                  optimize_table_for_display(t.headers, t.rows, available_width_l,
                                             header_style))

\* (1) lines 631-680
dispatch_property(st, obj, normalized_field_name, descriptions) ==
    IF /\ obj.propertyInstances # NoElement
       /\ obj.propertyInstances.children # <<>>
       /\ normalized_field_name \in normalized_property_table_field_identifiers
    THEN emit_table(st, "property", <<"darkslateblue">>,
                    property_table(extract_metadata_properties(obj.propertyInstances),
                                   normalized_field_name, descriptions))
    ELSE st

HasLineBreak(s) == \E i \in 1..Len(s) : s[i] = "\n"

\* Lines 684-697 for the content c of the styledText element.
emit_styled(st, c, descriptions, first_checklist_text_content_raw) ==
    LET should_skip_this_styled_text ==
            /\ first_checklist_text_content_raw # None
            /\ first_checklist_text_content_raw = c.content
            /\ descriptions # <<>>
    IN IF c.content # None /\ c.content # <<>> /\ c.type = "text"
          /\ ~should_skip_this_styled_text
       THEN Emit(Attempt(st, "styled"), "styled",
                 <<IF HasLineBreak(c.content)
                   THEN Preformatted(html_escape(Truncate(c.content, StyledTextLimit)),
                                     "code")
                   ELSE Paragraph(html_escape(Truncate(c.content, StyledTextLimit)),
                                  "body")>>)
       ELSE Attempt(st, "styled")

\* (2) lines 682-697
dispatch_styled(st, obj, descriptions, first_checklist_text_content_raw) ==
    IF ~st.produced /\ obj.styledText # NoElement
    THEN emit_styled(st, extract_styled_text_content(obj.styledText), descriptions,
                     first_checklist_text_content_raw)
    ELSE st

\* (3) lines 699-707
dispatch_table(st, obj) ==
    IF ~st.produced /\ obj.tableSection # NoElement
    THEN emit_table(st, "table", <<"cadetblue">>,
                    extract_tablesection_data(obj.tableSection))
    ELSE st

\* Lines 715-725: the sub-heading and table of every hierarchy table that renders.
hierarchy_table_elements(h_table, r) ==
    IF r.rendered
    THEN <<Paragraph(DataTablePrefix \o html_escape(h_table.name), "h4_table_title")>>
         \o r.elements
    ELSE <<>>
RECURSIVE hierarchy_elements(_)
hierarchy_elements(hierarchy_tables) ==
    IF hierarchy_tables = <<>> THEN <<>>
    ELSE hierarchy_table_elements(
             Head(hierarchy_tables),
             optimize_table_for_display(Head(hierarchy_tables).headers,
                                        Head(hierarchy_tables).rows,
                                        available_width_l, <<"lightgrey">>))
         \o hierarchy_elements(Tail(hierarchy_tables))

emit_elements(st, kind, temp_sub_elements) ==
    IF temp_sub_elements # <<>> THEN Emit(Attempt(st, kind), kind, temp_sub_elements)
    ELSE Attempt(st, kind)
\* Lines 711-728 for the extraction x, which raised or gave the tables.
emit_hierarchy(st, x) ==
    IF x.raised THEN [Attempt(st, "hierarchy") EXCEPT !.raised = TRUE]
    ELSE emit_elements(st, "hierarchy", hierarchy_elements(x.tables))

\* (4) lines 709-728; mappings is the global field map as read by the extraction.
dispatch_hierarchy(st, obj, mappings) ==
    IF ~st.produced /\ obj.hierarchyData # NoElement
    THEN emit_hierarchy(st, extract_hierarchy_data_tables(obj.hierarchyData, mappings))
    ELSE st

\* Lines 774-799 for the tables of one sheet: acc is
\* (temp_elements_for_this_excel_object, excel_content_was_rendered).
excel_table_title(table_title) ==
    IF table_title # <<>> /\ ~startswith(lower(table_title), TableTitleMarker)
    THEN <<Paragraph(html_escape(table_title) \o <<":">>, "body_small")>>
    ELSE <<>>
excel_table_added(acc, titled, r) ==
    IF r.rendered
    THEN [temp |-> acc.temp \o titled \o r.elements \o <<Spacer(72)>>, rendered |-> TRUE]
    ELSE [temp |-> acc.temp \o titled, rendered |-> acc.rendered]
RECURSIVE excel_table_elements(_, _)
excel_table_elements(tables_in_sheet, acc) ==
    IF tables_in_sheet = <<>> THEN acc
    ELSE excel_table_elements(
             Tail(tables_in_sheet),
             IF Head(tables_in_sheet).headers = <<>> /\ Head(tables_in_sheet).rows = <<>>
             THEN acc
             ELSE excel_table_added(
                      acc, excel_table_title(Head(tables_in_sheet).table_title),
                      optimize_table_for_display(Head(tables_in_sheet).headers,
                                                 Head(tables_in_sheet).rows,
                                                 available_width_l, <<"palegreen">>)))

\* Lines 755-803 over the sheets.
RECURSIVE excel_sheet_elements(_, _)
excel_sheet_elements(excel_sheets_data_list, acc) ==
    IF excel_sheets_data_list = <<>> THEN acc
    ELSE LET sheet_data_container == Head(excel_sheets_data_list)
         IN excel_sheet_elements(
                Tail(excel_sheets_data_list),
                IF sheet_data_container.tables = <<>> THEN acc
                ELSE excel_table_elements(
                         sheet_data_container.tables,
                         [temp |-> acc.temp
                                   \o <<Paragraph(SheetHeadingPrefix
                                                  \o html_escape(sheet_data_container.sheet_name)
                                                  \o <<"'">>, "h4_table_title"),
                                        Spacer(36)>>,
                          rendered |-> acc.rendered]))

\* Lines 737-751 for the text extracted from a Word document.
emit_word(st1, field_name_display, extracted_word_text) ==
    IF /\ extracted_word_text # <<>>
       /\ strip(extracted_word_text) # <<>>
       /\ ~startswith(lower(extracted_word_text), SkippedMarker)
       /\ ~startswith(lower(extracted_word_text), ErrorMarker)
    THEN Emit(st1, "document",
              <<Paragraph(WordHeadingPrefix \o html_escape(field_name_display)
                          \o WordHeadingSuffix, "h4_table_title"),
                Preformatted(html_escape(Truncate(extracted_word_text, WordTextLimit)),
                             "code")>>)
    ELSE IF extracted_word_text # <<>>
    THEN Emit(st1, "document", <<Paragraph(extracted_word_text, "note")>>)
    ELSE st1
\* Lines 805-809 for the elements x gathered from an Excel document.
emit_excel(st1, x) ==
    IF x.rendered THEN Emit(st1, "document", x.temp \o <<Spacer(108)>>) ELSE st1

\* (5) lines 730-811
dispatch_document(st, obj, field_name_display, docx_available) ==
    IF ~st.produced /\ obj.document # NoElement
    THEN IF ~NonBlank(obj.document.text) THEN Attempt(st, "document")
         ELSE IF obj.document.documentType = <<"1">>
         THEN emit_word(Attempt(st, "document"), field_name_display,
                        extract_word_text_from_base64(strip(obj.document.text),
                                                      obj.document.decoded,
                                                      docx_available))
         ELSE IF obj.document.documentType = <<"2">>
         THEN emit_excel(Attempt(st, "document"),
                         excel_sheet_elements(
                             extract_excel_data_from_base64(obj.document.decoded),
                             [temp |-> <<>>, rendered |-> FALSE]))
         ELSE Attempt(st, "document")
    ELSE st

\* Step (6) without the guard `not object_produced_renderable_content` of line 814.
dispatch_addin_unguarded(st, obj) ==
    IF obj.addin # NoElement
    THEN IF Get(obj.addin.data, <<>>) # <<>> /\ strip(Get(obj.addin.data, <<>>)) # <<>>
         THEN Emit(Attempt(st, "addin"), "addin",
                   <<Preformatted(html_escape(Truncate(Get(obj.addin.data, <<>>),
                                                       AddinLimit)), "code")>>)
         ELSE Attempt(st, "addin")
    ELSE st

\* Step (6) with the whole blob displayed, without the cut of line 817.
dispatch_addin_uncut(st, obj) ==
    IF ~st.produced /\ obj.addin # NoElement
    THEN IF Get(obj.addin.data, <<>>) # <<>> /\ strip(Get(obj.addin.data, <<>>)) # <<>>
         THEN Emit(Attempt(st, "addin"), "addin",
                   <<Preformatted(html_escape(Get(obj.addin.data, <<>>)), "code")>>)
         ELSE Attempt(st, "addin")
    ELSE st

\* (6) lines 813-819
dispatch_addin(st, obj) ==
    IF ~st.produced /\ obj.addin # NoElement
    THEN LET addin_data == Get(obj.addin.data, <<>>)
         IN IF addin_data # <<>> /\ strip(addin_data) # <<>>
            THEN Emit(Attempt(st, "addin"), "addin",
                      <<Preformatted(html_escape(Truncate(addin_data, AddinLimit)), "code")>>)
            ELSE Attempt(st, "addin")
    ELSE st

\* Lines 821-830: the ancillary-data notice.
dispatch_fallback(st, obj, field_name_display) ==
    IF ~st.produced /\ obj.ancillaryData # NoElement
       /\ obj.ancillaryData.extension # None /\ obj.ancillaryData.extension # <<>>
    THEN Emit(st, "ancillary",
              <<Paragraph(AncillaryPrefix \o html_escape(obj.ancillaryData.extension)
                          \o AncillaryMiddle \o field_name_display \o AncillarySuffix,
                          "body_small")>>)
    ELSE st

\* Steps (5), (6) and the fallback, which an exception of step (4) skips.
dispatch_after_hierarchy(s4, obj, field_name_display, docx_available) ==
    IF s4.raised THEN s4
    ELSE dispatch_fallback(
             dispatch_addin(dispatch_document(s4, obj, field_name_display, docx_available),
                            obj),
             obj, field_name_display)

dispatch_named(obj, original_field_name_attr, mappings, descriptions, first_checklist_text_content_raw, docx_available) ==
    dispatch_after_hierarchy(
        dispatch_hierarchy(
            dispatch_table(
                dispatch_styled(
                    dispatch_property(DispatchStart, obj,
                                      strip(lower(original_field_name_attr)), descriptions),
                    obj, descriptions, first_checklist_text_content_raw),
                obj),
            obj, mappings),
        obj, html_escape(original_field_name_attr), docx_available)

\* Lines 623-830 for one object that has a field element: the kinds in their
\* fixed order, an exception ending the dispatch where it is raised.
dispatch_object(obj, obj_idx, mappings, descriptions, first_checklist_text_content_raw, docx_available) ==
    dispatch_named(obj, Get(obj.field.name, UnnamedFieldPrefix \o IntStr(obj_idx + 1)),
                   mappings, descriptions, first_checklist_text_content_raw,
                   docx_available)

\* Lines 832-837: what the object adds to current_section_elements_buffer.
section_blocks_of(st, obj, obj_idx) ==
    LET original_field_name_attr == Get(obj.field.name, UnnamedFieldPrefix \o IntStr(obj_idx + 1))
        field_name_display == html_escape(original_field_name_attr)
    IN IF ~st.produced THEN <<>>
       ELSE (IF field_name_display # <<>>
                /\ field_name_display # UnnamedFieldPrefix \o IntStr(obj_idx + 1)
                /\ st.buffer # <<>>
             THEN <<Paragraph(field_name_display, "h3")>> ELSE <<>>)
            \o st.buffer \o <<Spacer(36)>>

\* ------------------------------------------------- the conversion call

\* "Report: "
ReportPrefix ==
    <<"R", "e", "p", "o", "r", "t", ":", " ">>

\* "N/A Collection"
DefaultCollectionName ==
    <<"N", "/", "A", " ", "C", "o", "l", "l", "e", "c", "t", "i", "o", "n">>

\* "Type: "
TypePrefix ==
    <<"T", "y", "p", "e", ":", " ">>

\* "Section "
SectionPrefix ==
    <<"S", "e", "c", "t", "i", "o", "n", " ">>

\* "No 'sectionSetView' (main content) found in the XML."
NoSectionSetViewText ==
    <<"N", "o", " ", "'", "s", "e", "c", "t", "i", "o", "n", "S", "e", "t", "V", "i",
    "e", "w", "'", " ", "(", "m", "a", "i", "n", " ", "c", "o", "n", "t", "e", "n",
    "t", ")", " ", "f", "o", "u", "n", "d", " ", "i", "n", " ", "t", "h", "e", " ",
    "X", "M", "L", ".">>

\* "No displayable content found in the XML after processing."
NoDisplayableContentText ==
    <<"N", "o", " ", "d", "i", "s", "p", "l", "a", "y", "a", "b", "l", "e", " ", "c",
    "o", "n", "t", "e", "n", "t", " ", "f", "o", "u", "n", "d", " ", "i", "n", " ",
    "t", "h", "e", " ", "X", "M", "L", " ", "a", "f", "t", "e", "r", " ", "p", "r",
    "o", "c", "e", "s", "s", "i", "n", "g", ".">>

\* "XML Parsing Error: "
ParseErrorPrefix ==
    <<"X", "M", "L", " ", "P", "a", "r", "s", "i", "n", "g", " ", "E", "r", "r", "o",
    "r", ":", " ">>

\* "Unexpected error during XML setup: "
SetupErrorPrefix ==
    <<"U", "n", "e", "x", "p", "e", "c", "t", "e", "d", " ", "e", "r", "r", "o", "r",
    " ", "d", "u", "r", "i", "n", "g", " ", "X", "M", "L", " ", "s", "e", "t", "u",
    "p", ":", " ">>

\* "FATAL ERROR: Could not build PDF."
FatalErrorText ==
    <<"F", "A", "T", "A", "L", " ", "E", "R", "R", "O", "R", ":", " ", "C", "o", "u",
    "l", "d", " ", "n", "o", "t", " ", "b", "u", "i", "l", "d", " ", "P", "D", "F",
    ".">>

\* No pre-scan: the section has no checklist text.
prescan_nothing(objects) == [raw |-> None, descriptions |-> <<>>]
\* Lines 605-619: the pre-scan of a section, giving
\* (first_checklist_text_content_raw, checklist_text_descriptions_for_section).
RECURSIVE prescan(_)
prescan(objects) ==
    IF objects = <<>> THEN [raw |-> None, descriptions |-> <<>>]
    ELSE LET obj == Head(objects)
             c == extract_styled_text_content(obj.styledText)
         IN IF /\ obj.field # NoElement
               /\ obj.field.name # None /\ obj.field.name # <<>>
               /\ strip(lower(obj.field.name)) \in ChecklistNames
               /\ obj.styledText # NoElement
               /\ c.content # None /\ c.content # <<>> /\ c.type = "text"
            THEN [raw |-> c.content, descriptions |-> parse_checklist_text_content(c.content)]
            ELSE prescan(Tail(objects))

\* Lines 603-604 with the two names bound to `previous` on entry: they are bound
\* anew to None and to an empty dict.  Keeping what the section before left:
section_kept(previous) == previous
section_reset(previous) == [raw |-> None, descriptions |-> <<>>]
\* Lines 605-619 when the two names hold `start`: an object is looked at only
\* while first_checklist_text_content_raw is empty, and both names are assigned
\* only when a checklist text is found.
prescan_after(start, objects) ==
    IF start.raw # None /\ start.raw # <<>> THEN start
    ELSE IF prescan(objects).raw = None THEN start
    ELSE prescan(objects)

\* Lines 586-591: the title blocks.
title_elements(root) ==
    <<Paragraph(ReportPrefix \o html_escape(Get(root.name, DefaultCollectionName)), "h1")>>
    \o (IF root.collectionType # NoElement
           /\ root.collectionType.name # None /\ root.collectionType.name # <<>>
        THEN <<Paragraph(TypePrefix \o html_escape(root.collectionType.name), "h2")>>
        ELSE <<>>)
    \o <<Spacer(72)>>

\* Lines 594-596: the notice added when the root has no sectionSetView.
no_section_set_view_elements(final_elements) ==
    IF final_elements = <<>> \/ Len(final_elements) <= 2
    THEN Append(final_elements, Paragraph(NoSectionSetViewText, "body"))
    ELSE final_elements

\* Lines 845-847 without the pop of lines 848-849.
elements_to_build_unpopped(final_elements, section_set_view, all_sections) ==
    IF \/ final_elements = <<>>
       \/ /\ Len(final_elements) = 2
          /\ final_elements[1].kind = "Paragraph"
          /\ final_elements[2].kind = "Spacer"
          /\ (section_set_view = NoElement \/ all_sections = <<>>)
    THEN <<Paragraph(NoDisplayableContentText, "body")>>
    ELSE final_elements

\* Lines 845-849: the block list handed to doc.build.
elements_to_build(final_elements, section_set_view, all_sections) ==
    IF \/ final_elements = <<>>
       \/ /\ Len(final_elements) = 2
          /\ final_elements[1].kind = "Paragraph"
          /\ final_elements[2].kind = "Spacer"
          /\ (section_set_view = NoElement \/ all_sections = <<>>)
    THEN <<Paragraph(NoDisplayableContentText, "body")>>
    ELSE IF final_elements[Len(final_elements)].kind = "PageBreak"
    THEN SubSeq(final_elements, 1, Len(final_elements) - 1)
    ELSE final_elements

\* Lines 840-843 without the test of section_has_renderable_content of line 839.
section_elements_unguarded(section_elem, section_idx, n_sections, buffer, has_content) ==
    <<Paragraph(html_escape(Get(section_elem.name, SectionPrefix \o IntStr(section_idx + 1))),
                "h2")>>
    \o buffer
    \o (IF section_idx < n_sections - 1 THEN <<PageBreak>> ELSE <<>>)

\* Lines 840-843 with the heading appended after the section's buffer.
section_elements_heading_last(section_elem, section_idx, n_sections, buffer, has_content) ==
    IF has_content
    THEN buffer
         \o <<Paragraph(html_escape(Get(section_elem.name, SectionPrefix \o IntStr(section_idx + 1))),
                        "h2")>>
         \o (IF section_idx < n_sections - 1 THEN <<PageBreak>> ELSE <<>>)
    ELSE <<>>

\* Lines 839-843: what a finished section adds to final_elements_for_pdf.
section_elements(section_elem, section_idx, n_sections, buffer, has_content) ==
    IF has_content
    THEN <<Paragraph(html_escape(Get(section_elem.name, SectionPrefix \o IntStr(section_idx + 1))),
                     "h2")>>
         \o buffer
         \o (IF section_idx < n_sections - 1 THEN <<PageBreak>> ELSE <<>>)
    ELSE <<>>

Pending == [kind |-> "pending"]
\* process_xml_to_pdf returned pdf_buffer.getvalue() for these elements
PdfBytes(elements) == [kind |-> "pdf", elements |-> elements]
\* process_xml_to_pdf returned None
ReturnedNone == [kind |-> "None"]
\* an exception left process_xml_to_pdf
Raised == [kind |-> "exception"]

VARIABLES
    \* the request and its environment
    request,            \* the upload: what the route finds in it
    xml,                \* what ET.fromstring makes of the uploaded text
    schema_files_config,\* the file paths of SCHEMA_FILES_CONFIG, in dict order
    disk,               \* path -> the schema file found there
    docx,               \* whether python-docx could be imported
    builder,            \* which doc.build calls raise
    \* module state
    HIERARCHY_TABLE_COLUMN_MAPPINGS,
    \* locals of process_xml_to_pdf
    pc,
    final_elements_for_pdf,
    section_idx,
    obj_idx,
    current_section_elements_buffer,
    section_has_renderable_content,
    checklist_text_descriptions_for_section,
    first_checklist_text_content_raw,
    \* the dispatch state of every object dispatched so far (history)
    dispatched,
    \* how the call ended, and the route's answer
    result,
    response,
    \* the conversion calls of concurrent requests: where each one is
    calls,
    \* one table on its way from an extractor through the layout
    table_source,       \* the element (sheet block, property list) it is extracted from
    handed_table,       \* the headers and rows handed to optimize_table_for_display
    table_layout        \* what optimize_table_for_display returned and appended

env == <<request, xml, schema_files_config, disk, docx, builder>>
locals == <<final_elements_for_pdf, section_idx, obj_idx, current_section_elements_buffer,
            section_has_renderable_content, checklist_text_descriptions_for_section,
            first_checklist_text_content_raw, dispatched>>
table_vars == <<table_source, handed_table, table_layout>>
\* what the conversion of one request never touches
elsewhere == <<calls, table_vars>>
vars == <<env, HIERARCHY_TABLE_COLUMN_MAPPINGS, pc, locals, result, response, calls,
          table_vars>>

all_sections == IF xml.sectionSetView = NoElement THEN <<>> ELSE xml.sectionSetView.sections
section_elem == all_sections[section_idx + 1]
obj_elem == section_elem.objects[obj_idx + 1]

\* app.py lines 39-48 and 75-77: the upload is refused, or read and decoded.
ReceiveRequest ==
    /\ pc = "request"
    /\ IF request = "ok"
       THEN /\ pc' = "load"
            /\ response' = response
       ELSE /\ pc' = "done"
            /\ response' = (IF request = "undecodable" THEN 500 ELSE 400)
    /\ UNCHANGED <<elsewhere, env, HIERARCHY_TABLE_COLUMN_MAPPINGS, locals, result>>

\* Line 555.
LoadMappings ==
    /\ pc = "load"
    /\ HIERARCHY_TABLE_COLUMN_MAPPINGS' =
           load_column_mappings_from_schema_files(schema_files_config, disk)
    /\ pc' = "parse"
    /\ UNCHANGED <<elsewhere, env, locals, result, response>>

\* Lines 562-585: the text does not parse; the error page is built and returned.
ParseFails ==
    /\ pc = "parse"
    /\ xml.state # "ok"
    /\ final_elements_for_pdf' =
           <<Paragraph((IF xml.state = "parse_error" THEN ParseErrorPrefix
                        ELSE SetupErrorPrefix) \o html_escape(xml.error), "error")>>
    /\ result' = (IF builder.main_raises THEN ReturnedNone
                  ELSE PdfBytes(final_elements_for_pdf'))
    /\ pc' = "respond"
    /\ UNCHANGED <<elsewhere, env, HIERARCHY_TABLE_COLUMN_MAPPINGS, section_idx, obj_idx,
                   current_section_elements_buffer, section_has_renderable_content,
                   checklist_text_descriptions_for_section,
                   first_checklist_text_content_raw, dispatched, response>>

\* Lines 562-598: the text parses; the title blocks, and the notice of a root
\* without sectionSetView.
ParseXml ==
    /\ pc = "parse"
    /\ xml.state = "ok"
    /\ final_elements_for_pdf' =
           (IF xml.sectionSetView = NoElement
            THEN no_section_set_view_elements(title_elements(xml))
            ELSE title_elements(xml))
    /\ pc' = "section"
    /\ UNCHANGED <<elsewhere, env, HIERARCHY_TABLE_COLUMN_MAPPINGS, section_idx, obj_idx,
                   current_section_elements_buffer, section_has_renderable_content,
                   checklist_text_descriptions_for_section,
                   first_checklist_text_content_raw, dispatched, result, response>>

\* Lines 599-619: a section begins; its buffers are reset and it is pre-scanned.
BeginSection ==
    /\ pc = "section"
    /\ section_idx < Len(all_sections)
    /\ current_section_elements_buffer' = <<>>
    /\ section_has_renderable_content' = FALSE
    /\ \E scan \in {prescan_after(
                         section_reset([raw |-> first_checklist_text_content_raw,
                                        descriptions |->
                                            checklist_text_descriptions_for_section]),
                         section_elem.objects)} :
          /\ first_checklist_text_content_raw' = scan.raw
          /\ checklist_text_descriptions_for_section' = scan.descriptions
    /\ obj_idx' = 0
    /\ pc' = "object"
    /\ UNCHANGED <<elsewhere, env, HIERARCHY_TABLE_COLUMN_MAPPINGS, final_elements_for_pdf, section_idx,
                   dispatched, result, response>>

\* Lines 620-622: an object without a field element is passed over.
SkipObject ==
    /\ pc = "object"
    /\ obj_idx < Len(section_elem.objects)
    /\ obj_elem.field = NoElement
    /\ obj_idx' = obj_idx + 1
    /\ UNCHANGED <<elsewhere, env, HIERARCHY_TABLE_COLUMN_MAPPINGS, pc, final_elements_for_pdf,
                   section_idx, current_section_elements_buffer,
                   section_has_renderable_content, checklist_text_descriptions_for_section,
                   first_checklist_text_content_raw, dispatched, result, response>>

\* Lines 620-837: one object is dispatched.  An exception raised on the way is
\* caught nowhere in process_xml_to_pdf and leaves it.
DispatchObject ==
    /\ pc = "object"
    /\ obj_idx < Len(section_elem.objects)
    /\ obj_elem.field # NoElement
    /\ \E st \in {dispatch_object(obj_elem, obj_idx, HIERARCHY_TABLE_COLUMN_MAPPINGS,
                                  checklist_text_descriptions_for_section,
                                  first_checklist_text_content_raw, docx)} :
          /\ dispatched' = Append(dispatched,
                                  [section |-> section_idx, object |-> obj_idx, st |-> st])
          /\ IF st.raised
             THEN /\ result' = Raised
                  /\ pc' = "respond"
                  /\ UNCHANGED <<obj_idx, current_section_elements_buffer,
                                 section_has_renderable_content>>
             ELSE /\ current_section_elements_buffer' =
                         current_section_elements_buffer
                         \o section_blocks_of(st, obj_elem, obj_idx)
                  /\ section_has_renderable_content' =
                         (section_has_renderable_content \/ st.produced)
                  /\ obj_idx' = obj_idx + 1
                  /\ UNCHANGED <<pc, result>>
    /\ UNCHANGED <<elsewhere, env, HIERARCHY_TABLE_COLUMN_MAPPINGS, final_elements_for_pdf, section_idx,
                   checklist_text_descriptions_for_section,
                   first_checklist_text_content_raw, response>>

\* Lines 839-843: the section is finished.
EndSection ==
    /\ pc = "object"
    /\ obj_idx = Len(section_elem.objects)
    /\ final_elements_for_pdf' =
           final_elements_for_pdf
           \o section_elements(section_elem, section_idx, Len(all_sections),
                               current_section_elements_buffer,
                               section_has_renderable_content)
    /\ section_idx' = section_idx + 1
    /\ pc' = "section"
    /\ UNCHANGED <<elsewhere, env, HIERARCHY_TABLE_COLUMN_MAPPINGS, obj_idx,
                   current_section_elements_buffer, section_has_renderable_content,
                   checklist_text_descriptions_for_section,
                   first_checklist_text_content_raw, dispatched, result, response>>

\* Lines 844-865: the list is finished and built; when doc.build raises, the
\* fatal-error page is built instead, and None returned when that raises too.
Build ==
    /\ pc = "section"
    /\ section_idx = Len(all_sections)
    /\ final_elements_for_pdf' =
           elements_to_build(final_elements_for_pdf, xml.sectionSetView, all_sections)
    /\ result' = (IF ~builder.main_raises THEN PdfBytes(final_elements_for_pdf')
                  ELSE IF ~builder.error_raises
                  THEN PdfBytes(<<Paragraph(FatalErrorText, "h1"),
                                  Paragraph(builder.error, "error")>>)
                  ELSE ReturnedNone)
    /\ pc' = "respond"
    /\ UNCHANGED <<elsewhere, env, HIERARCHY_TABLE_COLUMN_MAPPINGS, section_idx, obj_idx,
                   current_section_elements_buffer, section_has_renderable_content,
                   checklist_text_descriptions_for_section,
                   first_checklist_text_content_raw, dispatched, response>>

\* app.py lines 54-74: the PDF is sent, or the failure answered with status 500.
Respond ==
    /\ pc = "respond"
    /\ response' = (IF result.kind = "pdf" THEN 200 ELSE 500)
    /\ pc' = "done"
    /\ UNCHANGED <<elsewhere, env, HIERARCHY_TABLE_COLUMN_MAPPINGS, locals, result>>

\* ------------------------------------------------------------- inputs

T_Batch1 == <<"B", "a", "t", "c", "h", "1">>
T_Study == <<"S", "t", "u", "d", "y">>
T_Prep == <<"P", "r", "e", "p">>
T_Run == <<"R", "u", "n">>
T_Wash == <<"W", "a", "s", "h">>
T_Store == <<"S", "t", "o", "r", "e">>
T_Metadata == <<"M", "e", "t", "a", "d", "a", "t", "a">>
T_Checklist == <<"C", "h", "e", "c", "k", "l", "i", "s", "t">>
T_Notes == <<"N", "o", "t", "e", "s">>
T_Temp == <<"T", "e", "m", "p">>
T_37 == <<"3", "7">>
T_pH == <<"p", "H">>
T_7_2 == <<"7", ".", "2">>
T_Hello == <<"H", "e", "l", "l", "o">>
T_AltB == <<"a", "<", "b">>
T_pdf == <<"p", "d", "f">>
T_Name == <<"N", "a", "m", "e">>
T_Qty == <<"Q", "t", "y">>
T_a == <<"a">>
T_1 == <<"1">>
T_2 == <<"2">>
T_Alpha == <<"A", "l", "p", "h", "a">>
T_Beta == <<"B", "e", "t", "a">>
T_Results == <<"R", "e", "s", "u", "l", "t", "s">>
T_Other == <<"O", "t", "h", "e", "r">>
T_Odd == <<"O", "d", "d">>
T_Sheet1 == <<"S", "h", "e", "e", "t", "1">>
T_payload == <<"U", "E", "s", "D", "B", "A", "=", "=">>
T_x == <<"x">>
T_y == <<"y">>
T_bad_zip ==
    <<"F", "i", "l", "e", " ", "i", "s", " ", "n", "o", "t", " ", "a", " ", "z", "i",
    "p", " ", "f", "i", "l", "e">>
T_syntax ==
    <<"s", "y", "n", "t", "a", "x", " ", "e", "r", "r", "o", "r", ":", " ", "l", "i",
    "n", "e", " ", "1", ",", " ", "c", "o", "l", "u", "m", "n", " ", "0">>
T_layout ==
    <<"F", "l", "o", "w", "a", "b", "l", "e", " ", "t", "o", "o", " ", "l", "a", "r",
    "g", "e", " ", "o", "n", " ", "p", "a", "g", "e", " ", "1">>

\* The bounds of the inputs.
MaxChildren == 2
MaxSections == 3
MaxObjects == 2

\* object children, each absent (NoElement) or one of a few elements
FieldOptions ==
    {[name |-> None], [name |-> T_Metadata], [name |-> T_Checklist], [name |-> T_Notes]}

PropertyInstance(name, value) ==
    [tag |-> "propertyInstance", property |-> [name |-> name], value |-> value]
PropertyOptions ==
    {[children |-> <<PropertyInstance(<<>>, <<>>)>>],
     [children |-> <<PropertyInstance(T_Temp, T_37), PropertyInstance(T_pH, T_7_2)>>]}

StyledOptions ==
    {[text |-> <<" ">>, data |-> None], [text |-> T_Hello, data |-> None]}

TableSectionOptions ==
    {[properties |-> <<>>, tableRows |-> <<>>],
     [properties |-> <<T_Name, T_Qty>>, tableRows |-> << <<T_a, T_1>> >>]}

Cell(tag, text) == [tag |-> tag, text |-> text]
F_1 == FPrefix \o T_1
F_2 == FPrefix \o T_2
HierarchyOptions ==
    {\* a table name no schema file registers
     [tables |-> <<[name |-> T_Other, rows |-> << <<Cell(F_1, T_x)>> >>]>>],
     \* a registered table with two mapped columns
     [tables |-> <<[name |-> T_Results,
                    rows |-> << <<Cell(F_1, T_x), Cell(F_2, T_y)>> >>]>>],
     \* a registered table without rows, one of whose keys is U+00B2
     [tables |-> <<[name |-> T_Odd, rows |-> <<>>]>>]}

WordDocument(paragraphs) ==
    [loads |-> TRUE, error |-> <<>>, paragraphs |-> paragraphs, sheets |-> <<>>]
Workbook(sheets) ==
    [loads |-> TRUE, error |-> <<>>, paragraphs |-> <<>>, sheets |-> sheets]
Unloadable(error) ==
    [loads |-> FALSE, error |-> error, paragraphs |-> <<>>, sheets |-> <<>>]
Sheet(sheet_name, rows) ==
    [sheet_name |-> sheet_name, readable |-> TRUE, error |-> <<>>, rows |-> rows]

DocumentOptions ==
    {[documentType |-> <<"1">>, text |-> T_payload, decoded |-> WordDocument(<<T_Hello>>)],
     [documentType |-> <<"2">>, text |-> T_payload,
      decoded |-> Workbook(<<Sheet(T_Sheet1, << <<T_Name, T_Qty>>, <<T_a, T_1>> >>)>>)],
     [documentType |-> <<"4">>, text |-> T_payload, decoded |-> Unloadable(T_bad_zip)]}

AddinOptions == {[data |-> <<" ">>], [data |-> T_AltB]}

AncillaryOptions == {[extension |-> <<>>], [extension |-> T_pdf]}

Object(field, propertyInstances, styledText, tableSection, hierarchyData, document, addin, ancillaryData) ==
    [field |-> field, propertyInstances |-> propertyInstances, styledText |-> styledText,
     tableSection |-> tableSection, hierarchyData |-> hierarchyData,
     document |-> document, addin |-> addin, ancillaryData |-> ancillaryData]

Opt(S) == {NoElement} \cup S

ChildCount(obj) ==
    Cardinality({k \in {"propertyInstances", "styledText", "tableSection", "hierarchyData",
                        "document", "addin", "ancillaryData"} : obj[k] # NoElement})

\* Every object with a field element and at most MaxChildren content children.
Objects ==
    {o \in {Object(f, p, s, t, h, d, a, n) :
               f \in FieldOptions, p \in Opt(PropertyOptions), s \in Opt(StyledOptions),
               t \in Opt(TableSectionOptions), h \in Opt(HierarchyOptions),
               d \in Opt(DocumentOptions), a \in Opt(AddinOptions),
               n \in Opt(AncillaryOptions)} :
        ChildCount(o) <= MaxChildren}

\* The objects of the many-section documents: one that renders its add-in
\* blob, one with nothing to render, one without a field element.
AddinObject ==
    Object([name |-> T_Notes], NoElement, NoElement, NoElement, NoElement, NoElement,
           [data |-> T_AltB], NoElement)
EmptyObject ==
    Object([name |-> T_Notes], NoElement, [text |-> <<" ">>, data |-> None], NoElement,
           NoElement, NoElement, NoElement, NoElement)
FieldlessObject ==
    Object(NoElement, NoElement, NoElement, NoElement, NoElement, NoElement,
           [data |-> T_AltB], NoElement)
PlainObjects == {AddinObject, EmptyObject}

SeqsUpTo(S, n) == UNION {[1..k -> S] : k \in 0..n}

SectionNames == <<T_Prep, T_Run, T_Wash, T_Store>>

Root(name, collectionType, sectionSetView) ==
    [state |-> "ok", error |-> <<>>, name |-> name, collectionType |-> collectionType,
     sectionSetView |-> sectionSetView]
Unparsed(state, error) ==
    [state |-> state, error |-> error, name |-> None, collectionType |-> NoElement,
     sectionSetView |-> NoElement]

\* One section holding one object.
OneObjectDocuments ==
    {Root(T_Batch1, NoElement,
          [sections |-> <<[name |-> T_Prep, objects |-> <<o>>]>>]) : o \in Objects}

\* Up to MaxSections sections of up to MaxObjects plain objects each.
ManySectionDocuments ==
    {Root(T_Batch1, NoElement,
          [sections |-> [i \in 1..Len(ss) |->
                           [name |-> SectionNames[i], objects |-> ss[i]]]]) :
        ss \in SeqsUpTo(SeqsUpTo(PlainObjects, MaxObjects), MaxSections)}

\* Add-in blobs of n characters, the last one a character html.escape replaces.
Blob(n) == [i \in 1..n |-> IF i = n THEN "<" ELSE "a"]
AddinBlobs == {<<" ">>, T_AltB, Blob(AddinLimit), Blob(AddinLimit + 1)}

\* One section holding one object whose only content child is an add-in.
AddinOnlyDocuments ==
    {Root(T_Batch1, NoElement,
          [sections |-> <<[name |-> T_Prep,
                           objects |-> <<Object(f, NoElement, NoElement, NoElement,
                                                NoElement, NoElement, [data |-> b],
                                                NoElement)>>]>>]) :
        f \in FieldOptions, b \in AddinBlobs}

\* Embedded documents, healthy and not: a Word document and a workbook that
\* load, ones that do not, a workbook whose second sheet cannot be read, and
\* document elements without content.
EmbeddedOptions ==
    {[documentType |-> <<"1">>, text |-> T_payload, decoded |-> WordDocument(<<T_Hello>>)],
     [documentType |-> <<"1">>, text |-> T_payload, decoded |-> Unloadable(T_bad_zip)],
     [documentType |-> <<"1">>, text |-> None, decoded |-> Unloadable(T_bad_zip)],
     [documentType |-> <<"2">>, text |-> T_payload,
      decoded |-> Workbook(<<Sheet(T_Sheet1, << <<T_Name, T_Qty>>, <<T_a, T_1>> >>)>>)],
     [documentType |-> <<"2">>, text |-> T_payload, decoded |-> Unloadable(T_bad_zip)],
     [documentType |-> <<"2">>, text |-> T_payload,
      decoded |-> Workbook(<<Sheet(T_Sheet1, << <<T_Name, T_Qty>>, <<T_a, T_1>> >>),
                             [sheet_name |-> T_Other, readable |-> FALSE,
                              error |-> T_bad_zip, rows |-> <<>>]>>)],
     [documentType |-> <<"2">>, text |-> <<" ">>, decoded |-> Unloadable(T_bad_zip)]}
DocumentObject(d) ==
    Object([name |-> T_Results], NoElement, NoElement, NoElement, NoElement, d,
           NoElement, NoElement)

\* A section holding an object with an embedded document and an add-in object
\* after it, and a second section after that one.
EmbeddedDocuments ==
    {Root(T_Batch1, NoElement,
          [sections |-> <<[name |-> T_Prep,
                           objects |-> <<DocumentObject(d), AddinObject>>],
                          [name |-> T_Run, objects |-> <<AddinObject>>]>>]) :
        d \in EmbeddedOptions}

\* Checklist sections: objects with checklist text ("1 Hello" under the field
\* name "Checklist", "1 Alpha" under " Check List"), with blank text, with text
\* under another field name, and the checklist property table of items 1 and
\* 2, up to MaxChecklistObjects of them in any order; a second section holds the
\* property table and the text "1 Hello" under another field name.
MaxChecklistObjects == 3
T_CheckList == <<" ", "C", "h", "e", "c", "k", " ", "L", "i", "s", "t">>
TextObject(name, text) ==
    Object([name |-> name], NoElement, [text |-> text, data |-> None], NoElement,
           NoElement, NoElement, NoElement, NoElement)
ChecklistTable ==
    Object([name |-> T_Checklist],
           [children |-> <<PropertyInstance(T_1, <<"t", "r", "u", "e">>),
                           PropertyInstance(T_2, <<"f", "a", "l", "s", "e">>)>>],
           NoElement, NoElement, NoElement, NoElement, NoElement, NoElement)
ChecklistObjects ==
    {TextObject(T_Checklist, T_1 \o <<" ">> \o T_Hello),
     TextObject(T_CheckList, T_1 \o <<" ">> \o T_Alpha),
     TextObject(T_Checklist, <<" ">>),
     TextObject(T_Notes, T_1 \o <<" ">> \o T_Alpha),
     ChecklistTable}
ChecklistDocuments ==
    {Root(T_Batch1, NoElement,
          [sections |-> <<[name |-> T_Prep, objects |-> os],
                          [name |-> T_Run,
                           objects |-> <<ChecklistTable,
                                         TextObject(T_Notes, T_1 \o <<" ">> \o T_Hello)>>]>>]) :
        os \in SeqsUpTo(ChecklistObjects, MaxChecklistObjects)}

\* Roots with and without a name, a collectionType and a sectionSetView, the
\* sectionSetView empty or holding a section of a fieldless object.
RootDocuments ==
    {Root(n, c, v) :
        n \in {None, T_Batch1},
        c \in {NoElement, [name |-> None], [name |-> T_Study]},
        v \in {NoElement, [sections |-> <<>>],
               [sections |-> <<[name |-> None, objects |-> <<FieldlessObject>>]>>]}}

UnparsedDocuments ==
    {Unparsed("parse_error", T_syntax), Unparsed("other_error", T_syntax)}

Documents ==
    OneObjectDocuments \cup ManySectionDocuments \cup AddinOnlyDocuments
    \cup ChecklistDocuments \cup RootDocuments \cup UnparsedDocuments

\* The schema files: one registering the tables Results and Odd (and holding a
\* field without key and a table without name), one missing, one that is not
\* XML, one registering Results again and Other, and one naming the hardcoded
\* table with a tag it has (F_95) and one it has not (F_1).
SchemaFile(state, tables) == [state |-> state, tables |-> tables]
Field(key, name) == [key |-> key, name |-> name]
DefaultDisk ==
    [path \in 1..5 |->
        CASE path = 1 ->
               SchemaFile("ok",
                          <<[name |-> T_Results,
                             fields |-> <<Field(T_1, T_Alpha), Field(T_2, T_Beta),
                                          Field(None, T_Name)>>],
                            [name |-> None, fields |-> <<Field(T_1, T_Qty)>>],
                            [name |-> T_Odd, fields |-> <<Field(<<Sup2>>, T_Alpha)>>]>>)
          [] path = 2 -> SchemaFile("missing", <<>>)
          [] path = 3 -> SchemaFile("malformed", <<>>)
          [] path = 4 ->
               SchemaFile("ok",
                          <<[name |-> T_Results, fields |-> <<Field(T_2, T_Qty)>>],
                            [name |-> T_Other, fields |-> <<Field(T_1, T_Name)>>]>>)
          [] path = 5 ->
               SchemaFile("ok",
                          <<[name |-> HardcodedTableName,
                             fields |-> <<Field(<<"9", "5">>, T_Qty),
                                          Field(T_1, T_Alpha)>>]>>)]
DefaultConfig == <<1, 2, 3>>

Builders ==
    {[main_raises |-> FALSE, error_raises |-> FALSE, error |-> <<>>],
     [main_raises |-> TRUE, error_raises |-> FALSE, error |-> T_layout],
     [main_raises |-> TRUE, error_raises |-> TRUE, error |-> T_layout]}
GoodBuilder == [main_raises |-> FALSE, error_raises |-> FALSE, error |-> <<>>]

Requests == {"ok", "no_file_part", "no_filename", "not_xml", "undecodable"}

NoTableOnItsWay ==
    table_source = NoElement /\ handed_table = Pending /\ table_layout = Pending

InitLocals ==
    /\ HIERARCHY_TABLE_COLUMN_MAPPINGS = <<>>
    /\ pc = "request"
    /\ final_elements_for_pdf = <<>>
    /\ section_idx = 0
    /\ obj_idx = 0
    /\ current_section_elements_buffer = <<>>
    /\ section_has_renderable_content = FALSE
    /\ checklist_text_descriptions_for_section = <<>>
    /\ first_checklist_text_content_raw = None
    /\ dispatched = <<>>
    /\ result = Pending
    /\ response = 0

\* One request: any document with a builder that works, or a document of the
\* root family with any builder, or a refused upload.
Init ==
    /\ InitLocals
    /\ calls = <<>>
    /\ NoTableOnItsWay
    /\ schema_files_config = DefaultConfig
    /\ disk = DefaultDisk
    /\ \/ /\ request = "ok"
          /\ xml \in Documents
          /\ builder = GoodBuilder
          /\ docx = TRUE
       \/ /\ request = "ok"
          /\ xml \in EmbeddedDocuments
          /\ builder = GoodBuilder
          /\ docx \in BOOLEAN
       \/ /\ request = "ok"
          /\ xml \in RootDocuments \cup UnparsedDocuments
          /\ builder \in Builders
          /\ docx = TRUE
       \/ /\ request \in Requests
          /\ xml = Unparsed("parse_error", T_syntax)
          /\ builder = GoodBuilder
          /\ docx = TRUE

Next ==
    \/ ReceiveRequest
    \/ LoadMappings
    \/ ParseFails
    \/ ParseXml
    \/ BeginSection
    \/ SkipObject
    \/ DispatchObject
    \/ EndSection
    \/ Build
    \/ Respond

Spec == Init /\ [][Next]_vars

\* ------------------------------------------------ concurrent conversions

\* Two requests served at once by the threads of one process: both calls of
\* process_xml_to_pdf run load_column_mappings_from_schema_files and
\* extract_hierarchy_data_tables on the one module-level
\* HIERARCHY_TABLE_COLUMN_MAPPINGS, their statements interleaved.
Calls == {"A", "B"}
CallConfigs == {<<>>, DefaultConfig}
CallTableNames == {T_Results, HardcodedTableName}

call_file(c) == disk[calls[c].config[calls[c].file]]
call_table(c) == call_file(c).tables[calls[c].table]
call_field(c) == call_table(c).fields[calls[c].field]

\* What the request served by the route keeps through all of this.
request_state == <<env, pc, locals, result, response, table_vars>>
\* what the extraction and layout of one table never touches
request_vars == <<env, HIERARCHY_TABLE_COLUMN_MAPPINGS, pc, locals, result, response, calls>>

\* Line 231: the module-level name is bound to a new, empty dict.
CallReset(c) ==
    /\ calls[c].at = "reset"
    /\ HIERARCHY_TABLE_COLUMN_MAPPINGS' = <<>>
    /\ calls' = [calls EXCEPT ![c].at = "hardcoded"]
    /\ UNCHANGED request_state

\* Lines 232-239: the hardcoded table is stored in the dict the name is bound to.
CallHardcoded(c) ==
    /\ calls[c].at = "hardcoded"
    /\ HIERARCHY_TABLE_COLUMN_MAPPINGS' =
           DictSet(HIERARCHY_TABLE_COLUMN_MAPPINGS, HardcodedTableName, HardcodedTableFields)
    /\ calls' = [calls EXCEPT ![c].at = "file", ![c].file = 1]
    /\ UNCHANGED request_state

\* Lines 240-249: the next schema file is opened and parsed; a missing or
\* malformed one is passed over; after the last one the call goes on to its XML.
CallOpenFile(c) ==
    /\ calls[c].at = "file"
    /\ calls' =
           IF calls[c].file > Len(calls[c].config)
           THEN [calls EXCEPT ![c].at = "lookup"]
           ELSE IF call_file(c).state # "ok"
           THEN [calls EXCEPT ![c].file = @ + 1]
           ELSE [calls EXCEPT ![c].at = "table", ![c].table = 1]
    /\ UNCHANGED HIERARCHY_TABLE_COLUMN_MAPPINGS
    /\ UNCHANGED request_state

\* Lines 250-253: the next table element of the file; its name is registered.
CallRegisterTable(c) ==
    /\ calls[c].at = "table"
    /\ IF calls[c].table > Len(call_file(c).tables)
       THEN /\ calls' = [calls EXCEPT ![c].at = "file", ![c].file = @ + 1]
            /\ UNCHANGED HIERARCHY_TABLE_COLUMN_MAPPINGS
       ELSE IF call_table(c).name = None \/ call_table(c).name = <<>>
       THEN /\ calls' = [calls EXCEPT ![c].table = @ + 1]
            /\ UNCHANGED HIERARCHY_TABLE_COLUMN_MAPPINGS
       ELSE /\ HIERARCHY_TABLE_COLUMN_MAPPINGS' =
                   register_table_name(HIERARCHY_TABLE_COLUMN_MAPPINGS, call_table(c).name)
            /\ calls' = [calls EXCEPT ![c].at = "field", ![c].field = 1]
    /\ UNCHANGED request_state

\* Lines 254-259: the next field element of the table.  Line 259 subscripts the
\* module-level dict with the table name: when the other call has emptied it
\* since line 253, KeyError is raised and caught at line 261, which ends the file.
CallRegisterField(c) ==
    /\ calls[c].at = "field"
    /\ IF calls[c].field > Len(call_table(c).fields)
       THEN /\ calls' = [calls EXCEPT ![c].at = "table", ![c].table = @ + 1]
            /\ UNCHANGED HIERARCHY_TABLE_COLUMN_MAPPINGS
       ELSE IF call_field(c).key = None \/ call_field(c).key = <<>>
               \/ call_field(c).name = None \/ call_field(c).name = <<>>
       THEN /\ calls' = [calls EXCEPT ![c].field = @ + 1]
            /\ UNCHANGED HIERARCHY_TABLE_COLUMN_MAPPINGS
       ELSE IF ~DictHas(HIERARCHY_TABLE_COLUMN_MAPPINGS, call_table(c).name)
       THEN /\ calls' = [calls EXCEPT ![c].at = "file", ![c].file = @ + 1]
            /\ UNCHANGED HIERARCHY_TABLE_COLUMN_MAPPINGS
       ELSE /\ HIERARCHY_TABLE_COLUMN_MAPPINGS' =
                   register_field(HIERARCHY_TABLE_COLUMN_MAPPINGS, call_table(c).name,
                                  call_field(c))
            /\ calls' = [calls EXCEPT ![c].field = @ + 1]
    /\ UNCHANGED request_state

\* Line 338 of extract_hierarchy_data_tables: the lookup of the call's table.
CallLookup(c) ==
    /\ calls[c].at = "lookup"
    /\ calls' = [calls EXCEPT
                    ![c].at = "done",
                    ![c].table_specific_mappings =
                        DictGet(HIERARCHY_TABLE_COLUMN_MAPPINGS, calls[c].table_name_xml,
                                <<>>)]
    /\ UNCHANGED HIERARCHY_TABLE_COLUMN_MAPPINGS
    /\ UNCHANGED request_state

InitConcurrent ==
    /\ InitLocals
    /\ NoTableOnItsWay
    /\ request = "ok"
    /\ xml = Unparsed("parse_error", T_syntax)
    /\ builder = GoodBuilder
    /\ schema_files_config = DefaultConfig
    /\ disk = DefaultDisk
    /\ docx = TRUE
    /\ calls \in [Calls -> {[at |-> "reset", config |-> g, table_name_xml |-> n,
                             file |-> 0, table |-> 0, field |-> 0,
                             table_specific_mappings |-> None] :
                               g \in CallConfigs, n \in CallTableNames}]

NextConcurrent ==
    \/ \E c \in Calls : CallReset(c)
    \/ \E c \in Calls : CallHardcoded(c)
    \/ \E c \in Calls : CallOpenFile(c)
    \/ \E c \in Calls : CallRegisterTable(c)
    \/ \E c \in Calls : CallRegisterField(c)
    \/ \E c \in Calls : CallLookup(c)

SpecConcurrent == InitConcurrent /\ [][NextConcurrent]_vars

\* ------------------------------------------------- calls one after another

MaxCalls == 3
\* The schema configs of the calls: none, one file or the other, both in either
\* order, the one with a missing and a malformed file, and the one whose file
\* names the hardcoded table.
SequenceConfigs == {<<>>, <<1>>, <<4>>, <<1, 4>>, <<4, 1>>, DefaultConfig, <<5>>}

\* One whole call of load_column_mappings_from_schema_files (line 555 of a call
\* of process_xml_to_pdf), run after the calls before it have returned; calls
\* keeps the configs of the calls made, in order.
CallLoad(config) ==
    /\ Len(calls) < MaxCalls
    /\ HIERARCHY_TABLE_COLUMN_MAPPINGS' =
           reload_column_mappings(HIERARCHY_TABLE_COLUMN_MAPPINGS, config, disk)
    /\ calls' = Append(calls, config)
    /\ UNCHANGED request_state

InitSequence ==
    /\ InitLocals
    /\ NoTableOnItsWay
    /\ request = "ok"
    /\ xml = Unparsed("parse_error", T_syntax)
    /\ builder = GoodBuilder
    /\ schema_files_config = DefaultConfig
    /\ disk = DefaultDisk
    /\ docx = TRUE
    /\ calls = <<>>

NextSequence == \E config \in SequenceConfigs : CallLoad(config)

SpecSequence == InitSequence /\ [][NextSequence]_vars

\* ------------------------------------------------- one table at a time

\* More bounds of the inputs.
MaxRows == 2
SmallCols == 3

\* Tables given to optimize_table_for_display: widths up to SmallCols and on
\* both sides of MAX_COLS_FOR_NORMAL_LAYOUT, headers missing, blank or named,
\* rows blank, filled, filled in the last cell only, one cell short, or empty.
TableWidths ==
    (0..SmallCols) \cup {MAX_COLS_FOR_NORMAL_LAYOUT, MAX_COLS_FOR_NORMAL_LAYOUT + 1}
HeaderOptions(n) ==
    {<<>>, [j \in 1..n |-> <<" ">>], [j \in 1..n |-> T_Name \o IntStr(j)]}
RowOptions(n) ==
    {<<>>, [j \in 1..n |-> <<>>], [j \in 1..n |-> T_x],
     [j \in 1..n |-> IF j = n THEN T_x ELSE <<>>]}
    \cup (IF n > 0 THEN {[j \in 1..(n - 1) |-> T_x]} ELSE {})
GivenTables ==
    UNION {{[kind |-> "table", headers |-> h, rows |-> rs] :
               h \in HeaderOptions(n), rs \in SeqsUpTo(RowOptions(n), MaxRows)} :
           n \in TableWidths}

\* The elements the extractors are given.
TableSectionSources ==
    {[kind |-> "tableSection",
      element |-> [properties |-> ps, tableRows |-> rs]] :
        ps \in {<<>>, <<T_Name>>, <<T_Name, None>>},
        rs \in SeqsUpTo({<<>>, <<T_a>>, <<T_a, None>>, <<None, T_1, T_x>>}, MaxRows)}
\* A block of a header row and SampleRows + 1 data rows that all start in the
\* second column, but for the last row, which starts in the first.
LongBlock ==
    [i \in 1..(SampleRows + 2) |->
        IF i = 1 THEN <<None, T_Name, T_Qty>>
        ELSE IF i = SampleRows + 2 THEN <<T_x, T_a, T_1>>
        ELSE <<None, T_a, T_1>>]
ExcelBlockSources ==
    {[kind |-> "excelBlock", row_block |-> b] :
        b \in (SeqsUpTo({<<T_Name, T_Qty, None>>, <<T_a, T_1, None>>, <<None, T_1, T_x>>,
                         <<None, None, T_x>>, <<T_1, T_2, None>>}, MaxRows) \ {<<>>})
               \cup {LongBlock}}
HierarchySources ==
    {[kind |-> "hierarchyTable", element |-> [name |-> n, rows |-> rs]] :
        n \in {T_Other, T_Results},
        rs \in SeqsUpTo({<<Cell(F_1, T_x)>>, <<Cell(F_2, T_y), Cell(F_1, <<" ">>)>>,
                         <<Cell(T_Other, T_x)>>}, MaxRows)}
\* hierarchyData elements of up to MaxTables tables: names the schema files
\* register (Results, Odd) and names they do not (Other, no name attribute),
\* without rows, with a mapped tag, with an unmapped tag, with a childless row.
MaxTables == 2
HierarchyTableOptions ==
    {[name |-> n, rows |-> rs] :
        n \in {T_Other, T_Results, T_Odd, None},
        rs \in {<<>>, << <<Cell(F_1, T_x)>> >>, << <<Cell(T_Other, T_x)>> >>, << <<>> >>}}
HierarchyDataSources ==
    {[kind |-> "hierarchyData", element |-> [tables |-> ts]] :
        ts \in SeqsUpTo(HierarchyTableOptions, MaxTables)}
\* The values of checklist properties: no value attribute, the empty string,
\* the two booleans, and values that are none of these.
ChecklistValues ==
    {None, <<>>, <<"t", "r", "u", "e">>, <<"f", "a", "l", "s", "e">>,
     <<"T", "r", "u", "e">>, <<" ">>, T_37}
ChecklistDescriptions == {<<>>, <<[k |-> T_1, v |-> T_Hello]>>}
PropertySources ==
    {[kind |-> "propertyList", element |-> p, normalized_field_name |-> n,
      descriptions |-> d] :
        p \in PropertyOptions
              \cup {[children |-> <<PropertyInstance(T_1, <<"t", "r", "u", "e">>),
                                    [tag |-> "propertyInstance", property |-> NoElement,
                                     value |-> None]>>]}
              \cup {[children |-> <<PropertyInstance(T_1, v), PropertyInstance(T_2, w)>>] :
                       v \in ChecklistValues, w \in ChecklistValues},
        n \in {lower(T_Metadata), lower(T_Checklist)},
        d \in ChecklistDescriptions}
\* Worksheets: every sequence of up to MaxSheetRows rows that are blank or one
\* of two filled rows, and the sheet [A, B, blank, C, D, blank, blank, E].
MaxSheetRows == 4
BlankSheetRows == {<<None, None>>, <<None, <<" ">>>>}
ExampleSheet ==
    << <<T_Name, T_Qty>>, <<T_a, T_1>>, <<None, None>>, <<T_Alpha, T_Beta>>, <<T_x, T_2>>,
       <<None, None>>, <<None, <<" ">>>>, <<T_Results, T_Other>> >>
SheetSources ==
    {[kind |-> "sheet", rows |-> rs] :
        rs \in SeqsUpTo(BlankSheetRows \cup {<<T_Name, T_Qty>>, <<T_a, T_1>>}, MaxSheetRows)
               \cup {ExampleSheet}}
TableSources ==
    TableSectionSources \cup ExcelBlockSources \cup HierarchySources \cup PropertySources
    \cup SheetSources \cup HierarchyDataSources

NoTableHanded == [kind |-> "none"]
Handed(t) == [kind |-> "table", headers |-> t.headers, rows |-> t.rows]

\* extract_tablesection_data, called at line 701.
ExtractTableSection ==
    /\ table_source.kind = "tableSection" /\ handed_table = Pending
    /\ handed_table' = Handed(extract_tablesection_data(table_source.element))
    /\ UNCHANGED <<table_source, table_layout, request_vars>>

\* _process_active_table_block for one block of sheet rows (lines 396-403); None
\* or a dict without headers and rows is not kept.
ExtractExcelBlock ==
    /\ table_source.kind = "excelBlock" /\ handed_table = Pending
    /\ \E tables \in {flush_block(table_source.row_block, <<>>)} :
          handed_table' = IF tables = <<>> THEN NoTableHanded ELSE Handed(tables[1])
    /\ UNCHANGED <<table_source, table_layout, request_vars>>

\* The row loop of extract_excel_data_from_base64 for one worksheet (lines
\* 384-416): the blocks it hands over and the tables it keeps.
ExtractSheet ==
    /\ table_source.kind = "sheet" /\ handed_table = Pending
    /\ handed_table' = [kind |-> "sheet",
                        blocks |-> sheet_blocks(table_source.rows, <<>>, <<>>),
                        tables |-> sheet_tables(table_source.rows, <<>>, <<>>)]
    /\ UNCHANGED <<table_source, table_layout, request_vars>>

\* extract_hierarchy_data_tables for one table element (lines 337-367), the
\* field map being the one loaded from the schema files.
ExtractHierarchyTable ==
    /\ table_source.kind = "hierarchyTable" /\ handed_table = Pending
    /\ \E tables \in {extract_hierarchy_table(
                          table_source.element,
                          load_column_mappings_from_schema_files(schema_files_config,
                                                                 disk))} :
          handed_table' = IF tables = <<>> THEN NoTableHanded ELSE Handed(tables[1])
    /\ UNCHANGED <<table_source, table_layout, request_vars>>

\* extract_hierarchy_data_tables for a whole hierarchyData element (line 711).
ExtractHierarchyData ==
    /\ table_source.kind = "hierarchyData" /\ handed_table = Pending
    /\ \E extracted \in {extract_hierarchy_data_tables(
                             table_source.element,
                             load_column_mappings_from_schema_files(schema_files_config,
                                                                    disk))} :
          handed_table' = [kind |-> "hierarchy", raised |-> extracted.raised,
                           tables |-> extracted.tables]
    /\ UNCHANGED <<table_source, table_layout, request_vars>>

\* The property-list table of lines 635-674.
ExtractPropertyTable ==
    /\ table_source.kind = "propertyList" /\ handed_table = Pending
    /\ handed_table' =
           Handed(property_table(extract_metadata_properties(table_source.element),
                                 table_source.normalized_field_name,
                                 table_source.descriptions))
    /\ UNCHANGED <<table_source, table_layout, request_vars>>

\* optimize_table_for_display lays out the table it is handed.
LayoutTable ==
    /\ handed_table.kind = "table" /\ table_layout = Pending
    /\ table_layout' = optimize_table_for_display(handed_table.headers, handed_table.rows,
                                                  available_width_l, <<"cadetblue">>)
    /\ UNCHANGED <<table_source, handed_table, request_vars>>

\* transpose_table (line 491) applied to the grid of the table handed over,
\* and to its own result.
TransposeTable ==
    /\ handed_table.kind = "table" /\ table_layout = Pending
    /\ \E original_pdf_data \in {<<effective_headers(handed_table.headers, handed_table.rows)>>
                                  \o handed_table.rows} :
          table_layout' = [kind |-> "transposed",
                           once |-> transpose_table(original_pdf_data),
                           twice |-> transpose_table(transpose_table(original_pdf_data))]
    /\ UNCHANGED <<table_source, handed_table, request_vars>>

InitTable ==
    /\ InitLocals
    /\ request = "ok"
    /\ xml = Unparsed("parse_error", T_syntax)
    /\ builder = GoodBuilder
    /\ schema_files_config = DefaultConfig
    /\ disk = DefaultDisk
    /\ docx = TRUE
    /\ calls = <<>>
    /\ table_layout = Pending
    /\ \/ table_source \in TableSources /\ handed_table = Pending
       \/ table_source = NoElement /\ handed_table \in GivenTables

NextTable ==
    \/ ExtractTableSection
    \/ ExtractExcelBlock
    \/ ExtractSheet
    \/ ExtractHierarchyTable
    \/ ExtractHierarchyData
    \/ ExtractPropertyTable
    \/ LayoutTable
    \/ TransposeTable

SpecTable == InitTable /\ [][NextTable]_vars

\* ------------------------------------------------------------- claims

\* The object of the XML that a record of dispatched is about.
DispatchedObject(d) == xml.sectionSetView.sections[d.section + 1].objects[d.object + 1]
KindIndex(kind) == CHOOSE i \in 1..Len(Kinds) : Kinds[i] = kind
\* The content kinds (1)-(6) that appended a block to the buffer of a dispatch.
ProducingKinds(st) == {st.by[i] : i \in 1..Len(st.by)} \ {"ancillary"}

\* C1: for every dispatched object at most one of the content kinds (1)-(6)
\* appends blocks to the object's buffer, and no kind that comes after the one
\* that produced content is attempted, whatever children the object has.
C1_OneKindPerObject ==
    \A i \in 1..Len(dispatched) :
        /\ Cardinality(ProducingKinds(dispatched[i].st)) <= 1
        /\ \A k \in ProducingKinds(dispatched[i].st) :
              \A a \in dispatched[i].st.attempted : KindIndex(a) <= KindIndex(k)

\* An object whose styled text produced content and which also has an add-in
\* blob with data has been dispatched.
C1_Witness ==
    \E i \in 1..Len(dispatched) :
        /\ "styled" \in ProducingKinds(dispatched[i].st)
        /\ DispatchedObject(dispatched[i]).addin # NoElement
        /\ NonBlank(DispatchedObject(dispatched[i]).addin.data)

\* C2: process_xml_to_pdf ends by returning PDF bytes or None and never by an
\* exception that reaches its caller, failures while sections and objects are
\* processed included; None is returned only when the build of an
\* error-reporting PDF itself failed.
C2_ReturnsPdfOrNone ==
    /\ result.kind # "exception"
    /\ result.kind = "None" =>
           \/ xml.state # "ok" /\ builder.main_raises
           \/ builder.main_raises /\ builder.error_raises

\* The column map a call finds for its table when it runs alone: the lookup
\* in the map loaded from the call's own schema config.
OwnTableMappings(c) ==
    DictGet(load_column_mappings_from_schema_files(calls[c].config, disk),
            calls[c].table_name_xml, <<>>)
\* Two dicts with the same items.
SameItems(d1, d2) == {d1[i] : i \in 1..Len(d1)} = {d2[i] : i \in 1..Len(d2)}

\* C3: when two conversion calls run with their statements interleaved, every
\* field-map lookup of a call gives what the complete map built from that
\* call's own schema config gives: never the result of a map that is empty,
\* partly rebuilt, or built by the other call.
C3_LookupSeesOwnMap ==
    \A c \in Calls :
        calls[c].at = "done" =>
            SameItems(calls[c].table_specific_mappings, OwnTableMappings(c))

\* The blocks handed to doc.build are those of final_elements_for_pdf once the
\* call has reached the build.
Built == pc \in {"respond", "done"} /\ xml.state = "ok"
IsTitleHeading(b) ==
    /\ b.kind = "Paragraph" /\ b.style = "h1"
    /\ b.text = ReportPrefix \o html_escape(Get(xml.name, DefaultCollectionName))
IsNotice(b) ==
    /\ b.kind = "Paragraph" /\ b.style = "body"
    /\ b.text \in {NoSectionSetViewText, NoDisplayableContentText}
CountBlocks(blocks, Test(_)) == Cardinality({i \in 1..Len(blocks) : Test(blocks[i])})

\* C4: for an XML that parses and whose root has no sectionSetView, with or
\* without a named collectionType, no exception is raised and the block list
\* given to the builder holds the title heading and exactly one "no content"
\* notice, and no section content.
C4_NoSectionSetViewNotice ==
    (Built /\ xml.sectionSetView = NoElement) =>
        /\ result.kind # "exception"
        /\ CountBlocks(final_elements_for_pdf, IsTitleHeading) = 1
        /\ CountBlocks(final_elements_for_pdf, IsNotice) = 1
        /\ \A i \in 1..Len(final_elements_for_pdf) :
              \/ final_elements_for_pdf[i].kind = "Spacer"
              \/ IsTitleHeading(final_elements_for_pdf[i])
              \/ IsNotice(final_elements_for_pdf[i])
              \/ /\ final_elements_for_pdf[i].kind = "Paragraph"
                 /\ final_elements_for_pdf[i].style = "h2"
                 /\ xml.collectionType # NoElement
                 /\ final_elements_for_pdf[i].text
                        = TypePrefix \o html_escape(xml.collectionType.name)

IsNoDisplayableContentNotice(b) ==
    b.kind = "Paragraph" /\ b.style = "body" /\ b.text = NoDisplayableContentText
\* The sectionSetView is there and no object of any section produced content.
NoSectionContent ==
    /\ Built /\ result.kind # "exception"
    /\ xml.sectionSetView # NoElement
    /\ \A i \in 1..Len(dispatched) : ~dispatched[i].st.produced

\* C5: when the document produced no section content (a sectionSetView without
\* sections, or sections none of whose objects produced content), the block list
\* given to the builder is the title heading together with a single "no
\* displayable content" notice: the notice is there and the title heading is kept.
C5_NoDisplayableContentNotice ==
    NoSectionContent =>
        /\ CountBlocks(final_elements_for_pdf, IsTitleHeading) = 1
        /\ CountBlocks(final_elements_for_pdf, IsNoDisplayableContentNotice) = 1

\* The records of dispatched that are about the objects of section i (0-based).
DispatchedOf(i) == SelectSeq(dispatched, LAMBDA d : d.section = i)
\* An object of section i produced content.
SectionProduced(i) == \E k \in 1..Len(DispatchedOf(i)) : DispatchedOf(i)[k].st.produced
\* The blocks accumulated by the objects of section i.
SectionBlocks(i) ==
    Concat([k \in 1..Len(DispatchedOf(i)) |->
              section_blocks_of(DispatchedOf(i)[k].st, DispatchedObject(DispatchedOf(i)[k]),
                                DispatchedOf(i)[k].object)])
SectionHeading(i) ==
    Paragraph(html_escape(Get(all_sections[i + 1].name, SectionPrefix \o IntStr(i + 1))),
              "h2")
\* What a finished section i is to contribute to the final block list.
SectionContribution(i) ==
    IF SectionProduced(i)
    THEN <<SectionHeading(i)>> \o SectionBlocks(i)
         \o (IF i < Len(all_sections) - 1 THEN <<PageBreak>> ELSE <<>>)
    ELSE <<>>

\* C6: a section in which no object produced content contributes no block to
\* the final block list (no heading, no spacer, no page break), and a section
\* contributes its heading and its accumulated blocks exactly when one of its
\* objects produced content: while the sections are processed, the list is the
\* title blocks followed by the contributions of the finished sections.
C6_SectionContributes ==
    (pc \in {"section", "object"} /\ xml.sectionSetView # NoElement) =>
        final_elements_for_pdf =
            title_elements(xml)
            \o Concat([i \in 1..section_idx |-> SectionContribution(i - 1)])

\* Three sections are finished: the second had an object and produced nothing,
\* the first and the third produced content.
C6_Witness ==
    /\ pc = "section" /\ section_idx = 3
    /\ SectionProduced(0) /\ SectionProduced(2)
    /\ DispatchedOf(1) # <<>> /\ ~SectionProduced(1)

LaidOut == table_layout # Pending /\ DOMAIN table_layout = {"rendered", "elements"}
\* The grid optimize_table_for_display works on for the table it was handed.
LaidOutHeaders == effective_headers(handed_table.headers, handed_table.rows)
LaidOutGrid == <<LaidOutHeaders>> \o handed_table.rows
Rectangular(grid) == \A r \in 1..Len(grid) : Len(grid[r]) = Len(grid[1])
SomeNonBlankCell(grid) == \E r \in 1..Len(grid) : ~AllBlankRow(grid[r])
IsTransposed(tbl) ==
    tbl.kind = "Table" /\ tbl.style # <<>> /\ tbl.style[1] = "transposed_header_column"

\* C7: the column count alone decides the layout. A table of at most 25 columns
\* is never rendered transposed, and a table of more than 25 columns with a
\* non-blank cell is always rendered, transposed. Stated for the tables whose
\* rows all have the width of the header row.
C7_LayoutByColumnCount ==
    (LaidOut /\ Rectangular(LaidOutGrid)) =>
        /\ Len(LaidOutHeaders) <= MAX_COLS_FOR_NORMAL_LAYOUT =>
               \A i \in 1..Len(table_layout.elements) :
                   ~IsTransposed(table_layout.elements[i])
        /\ (Len(LaidOutHeaders) > MAX_COLS_FOR_NORMAL_LAYOUT
              /\ SomeNonBlankCell(LaidOutGrid)) =>
               /\ table_layout.rendered
               /\ Len(table_layout.elements) = 1
               /\ IsTransposed(table_layout.elements[1])

\* A dispatched object whose only content child is an add-in with non-blank data.
AddinOnly(obj) ==
    /\ ChildCount(obj) = 1
    /\ obj.addin # NoElement
    /\ NonBlank(obj.addin.data)
\* The first 2000 characters of the blob, escaped, and three dots after them.
CutAndEscaped(data) == html_escape(SubSeq(data, 1, AddinLimit)) \o <<".", ".", ".">>

\* C8 as stated: every object whose only content child is an add-in with
\* non-blank data, of any length, gives one fixed-width preformatted block whose
\* text is exactly the HTML-escaped data, the whole blob, and no other content
\* kind is attempted or produces a block for it.
C8_AddinVerbatim ==
    \A i \in 1..Len(dispatched) :
        AddinOnly(DispatchedObject(dispatched[i])) =>
            /\ dispatched[i].st.buffer =
                   <<Preformatted(html_escape(DispatchedObject(dispatched[i]).addin.data),
                                  "code")>>
            /\ dispatched[i].st.by = <<"addin">>
            /\ dispatched[i].st.attempted = {"addin"}

\* C8, amended: every object whose only content child is an add-in with non-blank
\* data gives one fixed-width preformatted block and no other content kind is
\* attempted or produces a block for it; the text of the block is the
\* HTML-escaped data when the data has at most 2000 characters, and the
\* HTML-escaped first 2000 characters followed by "..." when it has more.
C8_AddinVerbatimUpToLimit ==
    \A i \in 1..Len(dispatched) :
        AddinOnly(DispatchedObject(dispatched[i])) =>
            /\ dispatched[i].st.buffer =
                   <<Preformatted(
                         IF Len(DispatchedObject(dispatched[i]).addin.data) <= AddinLimit
                         THEN html_escape(DispatchedObject(dispatched[i]).addin.data)
                         ELSE CutAndEscaped(DispatchedObject(dispatched[i]).addin.data),
                         "code")>>
            /\ dispatched[i].st.by = <<"addin">>
            /\ dispatched[i].st.attempted = {"addin"}

\* An object whose only content child is an add-in with more than 2000
\* characters of data has been dispatched and has produced its block.
C8_Witness ==
    \E i \in 1..Len(dispatched) :
        /\ AddinOnly(DispatchedObject(dispatched[i]))
        /\ Len(DispatchedObject(dispatched[i]).addin.data) > AddinLimit
        /\ dispatched[i].st.buffer # <<>>

\* An extractor has handed a table over.
HandedByExtractor ==
    table_source # NoElement /\ handed_table.kind = "table"
\* Cell i of a tableRow as the claim has it: its value, or "" when it is missing.
PaddedCell(row_cells, i) ==
    IF i <= Len(row_cells) THEN Get(row_cells[i], <<>>) ELSE <<>>

\* C9: every table that an extractor (property list, generic table section,
\* hierarchy table, Excel block) hands to the layout has rows of exactly
\* len(headers) cells, shorter source rows padded with empty strings and longer
\* ones cut; a generic table section without tableProperty headers takes the
\* first row's cell count as the width of all its rows.
C9_RowsAsWideAsHeaders ==
    HandedByExtractor =>
        /\ \A r \in 1..Len(handed_table.rows) :
               Len(handed_table.rows[r]) = Len(handed_table.headers)
        /\ table_source.kind = "tableSection" =>
               /\ Len(handed_table.rows) = Len(table_source.element.tableRows)
               /\ \A r \in 1..Len(handed_table.rows) :
                      /\ table_source.element.properties = <<>> =>
                             Len(handed_table.rows[r])
                                 = Len(table_source.element.tableRows[1])
                      /\ \A i \in 1..Len(handed_table.rows[r]) :
                             handed_table.rows[r][i]
                                 = PaddedCell(table_source.element.tableRows[r], i)

\* C10: a table whose grid (header row plus all data rows) holds no non-blank
\* cell is never rendered, however many rows it has:
\* optimize_table_for_display returns False and appends no block.
C10_BlankGridNotRendered ==
    (LaidOut /\ ~SomeNonBlankCell(<<handed_table.headers>> \o handed_table.rows)) =>
        /\ ~table_layout.rendered
        /\ table_layout.elements = <<>>

\* An embedded Word document or spreadsheet that is missing (no content),
\* corrupt or undecodable (it does not load), or has a sheet that cannot be read.
MissingDocument(d) == ~NonBlank(d.text)
FailingDocument(d) ==
    /\ d.documentType \in {<<"1">>, <<"2">>}
    /\ \/ MissingDocument(d)
       \/ ~d.decoded.loads
       \/ \E k \in 1..Len(d.decoded.sheets) : ~d.decoded.sheets[k].readable
\* The number of objects with a field element in the sections of the document.
RECURSIVE FieldedIn(_)
FieldedIn(sections) ==
    IF sections = <<>> THEN 0
    ELSE Cardinality({j \in 1..Len(Head(sections).objects) :
                         Head(sections).objects[j].field # NoElement})
         + FieldedIn(Tail(sections))
Contains(blocks, b) == \E k \in 1..Len(blocks) : blocks[k] = b
AddinBlock(obj) == Preformatted(html_escape(Truncate(obj.addin.data, AddinLimit)), "code")

\* C11: a missing, corrupt or undecodable embedded spreadsheet or Word
\* document never aborts the section or the document. Its object is dispatched
\* without an exception and renders an error table or a skip/error message as
\* its inline content, and every later object of the section and every later
\* section is still dispatched and rendered: the PDF is built, every object was
\* dispatched, and the add-in objects after the failing one have their block in it.
C11_EmbeddedFailureIsLocal ==
    \A i \in 1..Len(dispatched) :
        (/\ ChildCount(DispatchedObject(dispatched[i])) = 1
         /\ DispatchedObject(dispatched[i]).document # NoElement
         /\ FailingDocument(DispatchedObject(dispatched[i]).document)) =>
            /\ ~dispatched[i].st.raised
            /\ dispatched[i].st.produced
            /\ ProducingKinds(dispatched[i].st) = {"document"}
            /\ Built =>
                  /\ result.kind = "pdf"
                  /\ Len(dispatched) = FieldedIn(all_sections)
                  /\ \A j \in (i + 1)..Len(dispatched) :
                         AddinOnly(DispatchedObject(dispatched[j])) =>
                             /\ dispatched[j].st.buffer
                                    = <<AddinBlock(DispatchedObject(dispatched[j]))>>
                             /\ Contains(result.elements,
                                         AddinBlock(DispatchedObject(dispatched[j])))

\* C12: the field map is rebuilt, not merged, on every call. After any sequence
\* of calls the map equals what a single call with the last call's schema
\* config alone builds: nothing registered only by an earlier call survives.
C12_MapRebuiltEachCall ==
    calls # <<>> =>
        HIERARCHY_TABLE_COLUMN_MAPPINGS
            = load_column_mappings_from_schema_files(calls[Len(calls)], disk)

\* A call has returned whose map lacks a table that the call before it had
\* registered, and gives a column of a common table the name of its own config.
C12_Witness ==
    /\ Len(calls) >= 2
    /\ DictHas(load_column_mappings_from_schema_files(calls[Len(calls) - 1], disk), T_Odd)
    /\ ~DictHas(HIERARCHY_TABLE_COLUMN_MAPPINGS, T_Odd)
    /\ DictHas(HIERARCHY_TABLE_COLUMN_MAPPINGS, T_Other)

\* A worksheet row all of whose cells are empty or blank.
BlankSheetRow(row) == \A k \in 1..Len(row) : row[k] = None \/ strip(row[k]) = <<>>
\* The maximal runs of consecutive non-blank rows of a sheet, in sheet order.
RunStarts(rows) ==
    {i \in 1..Len(rows) : ~BlankSheetRow(rows[i]) /\ (i = 1 \/ BlankSheetRow(rows[i - 1]))}
RunEnd(rows, s) ==
    CHOOSE e \in s..Len(rows) :
        /\ \A k \in s..e : ~BlankSheetRow(rows[k])
        /\ e = Len(rows) \/ BlankSheetRow(rows[e + 1])
NthRunStart(rows, n) ==
    CHOOSE s \in RunStarts(rows) : Cardinality({t \in RunStarts(rows) : t < s}) = n - 1
MaximalRuns(rows) ==
    [n \in 1..Cardinality(RunStarts(rows)) |->
        SubSeq(rows, NthRunStart(rows, n), RunEnd(rows, NthRunStart(rows, n)))]
\* The tables kept when each block is processed once, in order.
RECURSIVE TablesOfBlocks(_, _)
TablesOfBlocks(blocks, tables) ==
    IF blocks = <<>> THEN tables
    ELSE TablesOfBlocks(Tail(blocks), flush_block(Head(blocks), tables))
SheetExtracted == handed_table.kind = "sheet"

\* C13: Excel block segmentation. For every worksheet row sequence each maximal
\* run of consecutive non-blank rows is processed as exactly one block, in sheet
\* order, and leading, trailing or consecutive blank rows never make an empty
\* block that is processed or emitted; the rows [A, B, blank, C, D, blank,
\* blank, E] give exactly the three table blocks {A, B}, {C, D}, {E}.
C13_BlocksAreMaximalRuns ==
    SheetExtracted =>
        /\ handed_table.blocks = MaximalRuns(table_source.rows)
        /\ \A b \in 1..Len(handed_table.blocks) : handed_table.blocks[b] # <<>>
        /\ handed_table.tables = TablesOfBlocks(handed_table.blocks, <<>>)
        /\ table_source.rows = ExampleSheet =>
               /\ handed_table.blocks
                      = <<SubSeq(ExampleSheet, 1, 2), SubSeq(ExampleSheet, 4, 5),
                          SubSeq(ExampleSheet, 8, 8)>>
               /\ Len(handed_table.tables) = 3

\* The sheet [A, B, blank, C, D, blank, blank, E] has been segmented.
C13_Witness ==
    /\ SheetExtracted
    /\ table_source.rows = ExampleSheet
    /\ Len(handed_table.blocks) = 3

\* A checklist-type property table has been handed over; the pairs it was made of.
ChecklistTableHanded ==
    /\ table_source.kind = "propertyList"
    /\ table_source.normalized_field_name \in {<<"c", "h", "e", "c", "k", "l", "i", "s", "t">>,
                                              <<"c", "h", "e", "c", "k", " ", "l", "i", "s", "t">>}
    /\ handed_table.kind = "table"
    /\ extract_metadata_properties(table_source.element) # <<>>
ChecklistPairs == extract_metadata_properties(table_source.element)
\* The status the claim gives a property value.
StatusOf(value) ==
    CASE value = <<"t", "r", "u", "e">> -> <<"C", "o", "m", "p", "l", "e", "t", "e", "d">>
      [] value = <<"f", "a", "l", "s", "e">> ->
             <<"N", "o", "t", " ", "C", "o", "m", "p", "l", "e", "t", "e", "d">>
      [] value = <<>> -> <<" ">>
      [] OTHER -> value

\* C14: in every checklist-type property table, with or without a checklist
\* description map for the section, the status cell is a total function of the
\* property value: "true" gives "Completed", "false" gives "Not Completed", the
\* empty string gives a single space and every other value passes unchanged.
C14_ChecklistStatusTotal ==
    ChecklistTableHanded =>
        /\ Len(handed_table.rows) = Len(ChecklistPairs)
        /\ \A r \in 1..Len(handed_table.rows) :
               /\ Len(handed_table.rows[r]) = 2
               /\ handed_table.rows[r][2] = StatusOf(ChecklistPairs[r].Value)

\* A checklist table made with a description map holds a "false" value given
\* as "Not Completed" and a value that is no boolean passed through.
C14_Witness ==
    /\ ChecklistTableHanded
    /\ table_source.descriptions # <<>>
    /\ Len(handed_table.rows) = 2
    /\ ChecklistPairs[1].Value = <<"f", "a", "l", "s", "e">>
    /\ handed_table.rows[1][2] = <<"N", "o", "t", " ", "C", "o", "m", "p", "l", "e", "t", "e", "d">>
    /\ handed_table.rows[2][2] = T_37

\* The field map of a conversion and the name a hierarchy table is looked up by.
LoadedMappings == load_column_mappings_from_schema_files(schema_files_config, disk)
LookupName(table_elem) == Get(table_elem.name, DefaultHierarchyTableName)
\* The table's name is absent from the field map, or the table has rows and
\* none of their tags is mapped for that name.
UnknownToMap(table_elem) ==
    \/ \A i \in 1..Len(LoadedMappings) : LoadedMappings[i].k # LookupName(table_elem)
    \/ /\ table_elem.rows # <<>>
       /\ \A r \in 1..Len(table_elem.rows) : \A c \in 1..Len(table_elem.rows[r]) :
             \A i \in 1..Len(LoadedMappings) :
                LoadedMappings[i].k = LookupName(table_elem) =>
                   \A j \in 1..Len(LoadedMappings[i].v) :
                      LoadedMappings[i].v[j].k # table_elem.rows[r][c].tag
HierarchyDataHanded == table_source.kind = "hierarchyData" /\ handed_table.kind = "hierarchy"
RemainingTables == SelectSeq(table_source.element.tables, LAMBDA t : ~UnknownToMap(t))
Range(seq) == {seq[i] : i \in 1..Len(seq)}

\* C15: hierarchy extraction never raises on unknown names: a hierarchy table
\* whose name is absent from the field map, or none of whose row tags is
\* mapped for that table name, contributes zero tables to its object, and the
\* remaining tables of the same hierarchyData element are still extracted.
C15_UnknownHierarchyTablesSkipped ==
    HierarchyDataHanded =>
        /\ RemainingTables = <<>> => ~handed_table.raised /\ handed_table.tables = <<>>
        /\ \A i \in 1..Len(handed_table.tables) :
              \E t \in Range(RemainingTables) : handed_table.tables[i].name = LookupName(t)
        /\ \E extracted \in {extract_hierarchy_data_tables([tables |-> RemainingTables],
                                                            LoadedMappings)} :
              /\ handed_table.raised = extracted.raised
              /\ handed_table.tables = extracted.tables
        /\ ~handed_table.raised =>
              \A t \in Range(RemainingTables) :
                 t.rows # <<>> =>
                    \E i \in 1..Len(handed_table.tables) :
                       /\ handed_table.tables[i].name = LookupName(t)
                       /\ Len(handed_table.tables[i].rows) = Len(t.rows)

\* An unregistered table name comes before a registered table with a mapped
\* tag: one table is extracted, the registered one.
C15_Witness ==
    /\ HierarchyDataHanded
    /\ Len(table_source.element.tables) = 2
    /\ UnknownToMap(table_source.element.tables[1])
    /\ table_source.element.tables[1].rows # <<>>
    /\ ~UnknownToMap(table_source.element.tables[2])
    /\ ~handed_table.raised
    /\ Len(handed_table.tables) = 1
    /\ handed_table.tables[1].name = T_Results
    /\ Len(handed_table.tables[1].rows) = 1

\* The records of dispatched about object o of section s (both 0-based), and
\* the blocks that object added to its section's buffer.
RecordsOf(s, o) == SelectSeq(dispatched, LAMBDA d : d.section = s /\ d.object = o)
XmlObject(s, o) == all_sections[s + 1].objects[o + 1]
XmlObjectBlocks(s, o) ==
    IF RecordsOf(s, o) = <<>> THEN <<>>
    ELSE section_blocks_of(RecordsOf(s, o)[1].st, XmlObject(s, o), o)
\* The blocks of the first n objects of section s, in XML order.
XmlSectionBlocks(s, n) == Concat([o \in 1..n |-> XmlObjectBlocks(s, o - 1)])
\* Section s, finished: its heading, then the blocks of its objects.
XmlSection(s) ==
    IF XmlSectionBlocks(s, Len(all_sections[s + 1].objects)) = <<>> THEN <<>>
    ELSE <<SectionHeading(s)>> \o XmlSectionBlocks(s, Len(all_sections[s + 1].objects))
         \o (IF s < Len(all_sections) - 1 THEN <<PageBreak>> ELSE <<>>)
\* The (Property, Value) pairs of a propertyInstances element in XML order,
\* the blank ones left out.
PairOf(inst) ==
    << IF inst.property = NoElement THEN <<"N", "/", "A">>
       ELSE IF inst.property.name = None THEN <<>> ELSE inst.property.name,
       IF inst.value = None THEN <<>> ELSE inst.value >>
XmlPairs(property_instances_element) ==
    SelectSeq([i \in 1..Len(property_instances_element.children) |->
                  PairOf(property_instances_element.children[i])],
              LAMBDA pair : NonBlank(pair[1]) \/ NonBlank(pair[2]))
IsChecklistField(obj) ==
    obj.field.name # None /\ strip(lower(obj.field.name)) \in ChecklistNames
\* The rows of the property table of a dispatch are the pairs of its object.
PropertyRowsInOrder(d) ==
    LET pairs == XmlPairs(DispatchedObject(d).propertyInstances)
        data == d.st.buffer[1].data
    IN /\ Len(d.st.buffer) = 1 /\ d.st.buffer[1].kind = "Table"
       /\ Len(data) = Len(pairs) + 1
       /\ \A r \in 1..Len(pairs) :
             /\ Len(data[r + 1]) = 2
             /\ startswith(data[r + 1][1], html_escape(pairs[r][1]))
             /\ ~IsChecklistField(DispatchedObject(d)) =>
                    data[r + 1] = <<html_escape(pairs[r][1]), html_escape(pairs[r][2])>>

\* C16: the final block list preserves document order: a contributing
\* section's heading precedes all blocks of its objects, sections appear in XML
\* order, the blocks of the objects of a section appear in XML object order, and
\* the rows of a property-list table are the extracted (Property, Value) pairs
\* in XML order.
C16_DocumentOrderPreserved ==
    (pc \in {"section", "object"} /\ xml.sectionSetView # NoElement) =>
        /\ final_elements_for_pdf =
               title_elements(xml) \o Concat([s \in 1..section_idx |-> XmlSection(s - 1)])
        /\ pc = "object" =>
               current_section_elements_buffer = XmlSectionBlocks(section_idx, obj_idx)
        /\ \A i \in 1..Len(dispatched) :
              /\ Len(RecordsOf(dispatched[i].section, dispatched[i].object)) = 1
              /\ "property" \in ProducingKinds(dispatched[i].st) =>
                     PropertyRowsInOrder(dispatched[i])

\* Section "Prep" with a Metadata object holding Temp=37 and pH=7.2: the PDF
\* has the heading "Prep" and after it a table with the rows [Temp, 37], [pH, 7.2].
C16_Witness ==
    /\ result.kind = "pdf"
    /\ \E i, j \in 1..Len(result.elements) :
          /\ i < j
          /\ result.elements[i] = Paragraph(T_Prep, "h2")
          /\ result.elements[j].kind = "Table"
          /\ result.elements[j].data =
                << << <<"P", "r", "o", "p", "e", "r", "t", "y">>, <<"V", "a", "l", "u", "e">> >>,
                   <<T_Temp, T_37>>, <<T_pH, T_7_2>> >>

\* Two sections contributed, the first one the blocks of two objects.
C16_TwoSections ==
    /\ pc = "section" /\ section_idx = 2
    /\ XmlSection(0) # <<>> /\ XmlSection(1) # <<>> /\ XmlSection(0) # XmlSection(1)
    /\ XmlObjectBlocks(0, 0) # <<>> /\ XmlObjectBlocks(0, 1) # <<>>
    /\ XmlObjectBlocks(0, 0) # XmlObjectBlocks(0, 1)

Transposed == table_layout # Pending /\ DOMAIN table_layout = {"kind", "once", "twice"}
\* A non-empty grid whose rows all have the same non-zero length.
RectangularGrid(grid) ==
    /\ grid # <<>>
    /\ Len(grid[1]) > 0
    /\ \A r \in 1..Len(grid) : Len(grid[r]) = Len(grid[1])

\* C17: transpose_table is involutive on rectangular grids: for every
\* non-empty grid (header row plus data rows) whose rows all have the same
\* non-zero length, transposing twice yields the original grid, and the
\* once-transposed grid has the original header row as its first column.
C17_TransposeInvolutive ==
    (Transposed /\ RectangularGrid(LaidOutGrid)) =>
        /\ table_layout.twice = LaidOutGrid
        /\ Len(table_layout.once) = Len(LaidOutGrid[1])
        /\ \A j \in 1..Len(table_layout.once) :
              /\ Len(table_layout.once[j]) = Len(LaidOutGrid)
              /\ table_layout.once[j][1] = LaidOutGrid[1][j]

\* A grid of a header row of three names and two data rows has been transposed
\* into three rows of three cells.
C17_Witness ==
    /\ Transposed /\ RectangularGrid(LaidOutGrid)
    /\ Len(LaidOutGrid) = 3 /\ Len(LaidOutGrid[1]) = 3
    /\ LaidOutGrid[1][1] # LaidOutGrid[1][2]
    /\ LaidOutGrid[2] # LaidOutGrid[3]
    /\ Len(table_layout.once) = 3
    /\ table_layout.once # LaidOutGrid

\* A grid with a short row has been transposed twice and is not what it was.
C17_RaggedLosesCells == Transposed /\ LaidOutGrid # <<<<>>>> /\ table_layout.twice # LaidOutGrid

\* The child element of an object that a content kind reads.
ChildOfKind(kind) ==
    CASE kind = "property" -> "propertyInstances"
      [] kind = "styled" -> "styledText"
      [] kind = "table" -> "tableSection"
      [] kind = "hierarchy" -> "hierarchyData"
      [] kind = "document" -> "document"
      [] kind = "addin" -> "addin"
\* The object with its field and the child of one kind, its other children removed.
OnlyChild(obj, kind) ==
    [c \in DOMAIN obj |->
        IF c = "field" \/ c = ChildOfKind(kind) THEN obj[c] ELSE NoElement]
\* The dispatch of the object of record d reduced to the child of one kind, in
\* the section of d.
DispatchAlone(d, kind) ==
    dispatch_object(OnlyChild(DispatchedObject(d), kind), d.object,
                    HIERARCHY_TABLE_COLUMN_MAPPINGS,
                    prescan(all_sections[d.section + 1].objects).descriptions,
                    prescan(all_sections[d.section + 1].objects).raw, docx)
\* The kinds able to produce renderable content from the object of record d.
AbleKinds(d) ==
    {Kinds[k] : k \in {k \in 1..Len(Kinds) :
                          /\ ~DispatchAlone(d, Kinds[k]).raised
                          /\ Kinds[k] \in ProducingKinds(DispatchAlone(d, Kinds[k]))}}
EarliestOf(kinds) ==
    {k \in kinds : \A other \in kinds : KindIndex(k) <= KindIndex(other)}
\* The kinds present in the object of d that produce nothing from it.
PresentButBarren(d) ==
    {Kinds[k] : k \in {k \in 1..Len(Kinds) :
                          /\ DispatchedObject(d)[ChildOfKind(Kinds[k])] # NoElement
                          /\ Kinds[k] \notin AbleKinds(d)}}

\* C18: for each object the kind whose blocks are emitted is the earliest kind,
\* in the order property-list table, styled text, generic table section,
\* hierarchy tables, embedded document, add-in blob, that is able to produce
\* renderable content from the object; a kind that is present but produces
\* nothing does not stop later kinds from being tried.
C18_EarliestAbleKindEmitted ==
    \A i \in 1..Len(dispatched) :
        ProducingKinds(dispatched[i].st) = EarliestOf(AbleKinds(dispatched[i]))

\* The same for the dispatches that no exception left.
C18_EarliestAbleKindUnlessRaised ==
    \A i \in 1..Len(dispatched) :
        ~dispatched[i].st.raised =>
            ProducingKinds(dispatched[i].st) = EarliestOf(AbleKinds(dispatched[i]))

\* An object whose first present kind produces nothing and whose later kind
\* produced the content.
C18_LaterKindProduced ==
    \E i \in 1..Len(dispatched) :
        /\ ~dispatched[i].st.raised
        /\ \E barren \in PresentButBarren(dispatched[i]) :
              \E k \in ProducingKinds(dispatched[i].st) : KindIndex(barren) < KindIndex(k)

\* The object has an ancillaryData child with a non-empty extension attribute.
HasAncillaryExtension(obj) ==
    /\ obj.ancillaryData # NoElement
    /\ obj.ancillaryData.extension # None
    /\ obj.ancillaryData.extension # <<>>
\* The ancillary-data notice is among the blocks of a dispatch.
AncillaryNoticeEmitted(st) == \E i \in 1..Len(st.by) : st.by[i] = "ancillary"
\* The dispatches of the section being processed.
DispatchedHere == SelectSeq(dispatched, LAMBDA d : d.section = section_idx)

\* C19: the ancillary-data notice is emitted for an object if and only if none
\* of kinds (1)-(6) produced content and the object has an ancillaryData child
\* with a non-empty extension attribute; in every other case where no kind
\* produced content the object contributes nothing to its section: no heading,
\* no spacer, and it does not mark the section as having content.
C19_AncillaryNoticeIff ==
    /\ \A i \in 1..Len(dispatched) :
          /\ AncillaryNoticeEmitted(dispatched[i].st) <=>
                 /\ ProducingKinds(dispatched[i].st) = {}
                 /\ HasAncillaryExtension(DispatchedObject(dispatched[i]))
          /\ (ProducingKinds(dispatched[i].st) = {}
              /\ ~HasAncillaryExtension(DispatchedObject(dispatched[i]))) =>
                 /\ dispatched[i].st.buffer = <<>>
                 /\ ~dispatched[i].st.produced
    /\ pc = "object" =>
          IF \A i \in 1..Len(DispatchedHere) :
                /\ ProducingKinds(DispatchedHere[i].st) = {}
                /\ ~HasAncillaryExtension(DispatchedObject(DispatchedHere[i]))
          THEN current_section_elements_buffer = <<>> /\ ~section_has_renderable_content
          ELSE current_section_elements_buffer # <<>> /\ section_has_renderable_content

\* The same with the dispatches that an exception left set aside.
C19_AncillaryNoticeIffUnlessRaised ==
    /\ \A i \in 1..Len(dispatched) :
          ~dispatched[i].st.raised =>
              /\ AncillaryNoticeEmitted(dispatched[i].st) <=>
                     /\ ProducingKinds(dispatched[i].st) = {}
                     /\ HasAncillaryExtension(DispatchedObject(dispatched[i]))
              /\ (ProducingKinds(dispatched[i].st) = {}
                  /\ ~HasAncillaryExtension(DispatchedObject(dispatched[i]))) =>
                     /\ dispatched[i].st.buffer = <<>>
                     /\ ~dispatched[i].st.produced
    /\ pc = "object" =>
          IF \A i \in 1..Len(DispatchedHere) :
                /\ ProducingKinds(DispatchedHere[i].st) = {}
                /\ ~HasAncillaryExtension(DispatchedObject(DispatchedHere[i]))
          THEN current_section_elements_buffer = <<>> /\ ~section_has_renderable_content
          ELSE current_section_elements_buffer # <<>> /\ section_has_renderable_content

\* The notice was emitted for an object with a barren child, and an object with
\* an ancillaryData child without extension contributed nothing.
C19_NoticeEmitted ==
    \E i \in 1..Len(dispatched) :
        /\ AncillaryNoticeEmitted(dispatched[i].st)
        /\ PresentButBarren(dispatched[i]) # {}
C19_NothingContributed ==
    /\ pc = "object" /\ obj_idx = 1 /\ Len(dispatched) = 1
    /\ DispatchedObject(dispatched[1]).ancillaryData # NoElement
    /\ ~HasAncillaryExtension(DispatchedObject(dispatched[1]))
    /\ ~dispatched[1].st.raised
    /\ current_section_elements_buffer = <<>>

\* The object has a checklist field name and non-empty styled plain text.
IsChecklistText(obj) ==
    /\ obj.field # NoElement /\ obj.field.name # None
    /\ strip(lower(obj.field.name)) \in {<<"c", "h", "e", "c", "k", "l", "i", "s", "t">>,
                                         <<"c", "h", "e", "c", "k", " ", "l", "i", "s", "t">>}
    /\ obj.styledText # NoElement /\ obj.styledText.text # None
    /\ strip(obj.styledText.text) # <<>>
ChecklistTextPositions(s) ==
    {o \in 1..Len(all_sections[s + 1].objects) : IsChecklistText(all_sections[s + 1].objects[o])}
FirstChecklistText(s) ==
    all_sections[s + 1].objects[CHOOSE o \in ChecklistTextPositions(s) :
                                    \A other \in ChecklistTextPositions(s) : o <= other]
\* The description map of section s: that of the text of the first such object.
SectionDescriptions(s) ==
    IF ChecklistTextPositions(s) = {} THEN <<>>
    ELSE parse_checklist_text_content(strip(FirstChecklistText(s).styledText.text))
\* A checklist item's label decorated with a description map.
DecoratedLabel(descriptions, key) ==
    IF checklist_description(descriptions, key) = <<>> THEN key
    ELSE key \o <<":", " ">> \o checklist_description(descriptions, key)
\* The checklist property table of dispatch d carries the labels decorated with
\* the description map of its section.
DecoratedWithSectionMap(d) ==
    LET pairs == XmlPairs(DispatchedObject(d).propertyInstances)
        data == d.st.buffer[1].data
    IN /\ Len(data) = Len(pairs) + 1
       /\ \A r \in 1..Len(pairs) :
             data[r + 1][1] = html_escape(DecoratedLabel(SectionDescriptions(d.section),
                                                         pairs[r][1]))

\* C20: in each section the checklist description map is computed by a
\* pre-scan before any object of the section is dispatched, from the first
\* object in XML order whose normalized field name is "checklist" or "check
\* list" and whose styled plain text is non-empty; a checklist property table is
\* therefore decorated with that map whether the text object comes before or
\* after the property-table object in the section.
C20_PrescanBeforeDispatch ==
    /\ pc = "object" =>
           checklist_text_descriptions_for_section = SectionDescriptions(section_idx)
    /\ \A i \in 1..Len(dispatched) :
          ("property" \in ProducingKinds(dispatched[i].st)
           /\ IsChecklistField(DispatchedObject(dispatched[i]))) =>
              DecoratedWithSectionMap(dispatched[i])

\* The checklist property table is the first object of its section, the
\* checklist text comes after it, and item 1 carries the text's description.
C20_Witness ==
    \E i \in 1..Len(dispatched) :
        /\ dispatched[i].section = 0 /\ dispatched[i].object = 0
        /\ "property" \in ProducingKinds(dispatched[i].st)
        /\ ChecklistTextPositions(0) # {}
        /\ \A o \in ChecklistTextPositions(0) : o > 1
        /\ dispatched[i].st.buffer[1].data[2][1] = T_1 \o <<":", " ">> \o T_Hello
        /\ dispatched[i].st.buffer[1].data[3][1] = T_2

\* Two checklist texts in one section: the map is that of the first one.
C20_FirstTextWins ==
    /\ pc = "object"
    /\ Cardinality(ChecklistTextPositions(section_idx)) = 2
    /\ checklist_text_descriptions_for_section = <<[k |-> T_1, v |-> T_Alpha]>>

\* The non-empty styled plain text of an object, <<>> when it has none.
StyledPlainText(obj) ==
    IF obj.styledText # NoElement /\ obj.styledText.text # None
    THEN strip(obj.styledText.text) ELSE <<>>
\* The checklist text of section s: that of the first object with a checklist
\* field name and non-empty styled plain text.
SectionChecklistText(s) ==
    IF ChecklistTextPositions(s) = {} THEN <<>> ELSE StyledPlainText(FirstChecklistText(s))
\* A checklist property table of section s is rendered with the description
\* map of the section's checklist text.
IsChecklistTableObject(obj) ==
    /\ obj.field # NoElement /\ IsChecklistField(obj)
    /\ obj.propertyInstances # NoElement
    /\ XmlPairs(obj.propertyInstances) # <<>>
ChecklistTextConsumed(s) ==
    /\ SectionDescriptions(s) # <<>>
    /\ \E o \in 1..Len(all_sections[s + 1].objects) :
          IsChecklistTableObject(all_sections[s + 1].objects[o])
\* Step (2) came to the styled plain text of the object of dispatch d.
StyledTextReached(d) ==
    /\ "property" \notin ProducingKinds(d.st)
    /\ StyledPlainText(DispatchedObject(d)) # <<>>

\* C21: in step (2) an object's non-empty styled plain text is skipped exactly
\* when it is verbatim identical to the checklist text that a rendered checklist
\* property table of the section consumed; styled text is never suppressed when
\* no checklist property table of the section consumed it, so checklist text is
\* never lost from the output.
C21_StyledSkippedIffConsumed ==
    \A i \in 1..Len(dispatched) :
        StyledTextReached(dispatched[i]) =>
            ("styled" \notin ProducingKinds(dispatched[i].st)
             <=> /\ StyledPlainText(DispatchedObject(dispatched[i]))
                       = SectionChecklistText(dispatched[i].section)
                 /\ ChecklistTextConsumed(dispatched[i].section))

\* What the code tests: the text equals the section's checklist text and that
\* text gave a non-empty description map, table or no table.
C21_StyledSkippedIffParsed ==
    \A i \in 1..Len(dispatched) :
        StyledTextReached(dispatched[i]) =>
            ("styled" \notin ProducingKinds(dispatched[i].st)
             <=> /\ StyledPlainText(DispatchedObject(dispatched[i]))
                       = SectionChecklistText(dispatched[i].section)
                 /\ SectionDescriptions(dispatched[i].section) # <<>>)

\* The sections that contributed, in XML order (0-based indexes).
ContributingSections ==
    SelectSeq([i \in 1..Len(all_sections) |-> i - 1], LAMBDA s : SectionProduced(s))
IsPageBreak(b) == b.kind = "PageBreak"
\* The list was handed to the builder after the sections of a parsed document
\* were processed.
SectionsBuilt == Built /\ result.kind # "exception" /\ xml.sectionSetView # NoElement

\* C22: in the final block list handed to the document builder page breaks
\* occur only between contributing sections: exactly one PageBreak separates the
\* blocks of any two consecutive contributing sections (also when empty sections
\* lie between them or after them), and the list never ends with a PageBreak.
C22_PageBreaksBetweenSections ==
    SectionsBuilt =>
        /\ final_elements_for_pdf # <<>>
        /\ ~IsPageBreak(final_elements_for_pdf[Len(final_elements_for_pdf)])
        /\ CountBlocks(final_elements_for_pdf, IsPageBreak) =
               (IF ContributingSections = <<>> THEN 0 ELSE Len(ContributingSections) - 1)
        /\ \A k \in 1..Len(ContributingSections) :
              \A b \in 1..Len(SectionBlocks(ContributingSections[k])) :
                 ~IsPageBreak(SectionBlocks(ContributingSections[k])[b])
        /\ ContributingSections # <<>> =>
               final_elements_for_pdf =
                   title_elements(xml)
                   \o Concat([k \in 1..Len(ContributingSections) |->
                                 (IF k > 1 THEN <<PageBreak>> ELSE <<>>)
                                 \o <<SectionHeading(ContributingSections[k])>>
                                 \o SectionBlocks(ContributingSections[k])])

\* Of three sections the first and the third contributed and the second did
\* not: one PageBreak is in the list handed to the builder.
C22_Witness ==
    /\ SectionsBuilt
    /\ ContributingSections = <<0, 2>>
    /\ CountBlocks(final_elements_for_pdf, IsPageBreak) = 1

\* The first of three sections contributed alone.
C22_EmptySectionsAfter ==
    SectionsBuilt /\ Len(all_sections) = 3 /\ ContributingSections = <<0>>

\* ------------------------------------------- column widths, in doubles

\* Python floats are IEEE-754 doubles.  A positive double is m * 2^e with m a
\* natural number of MantissaBits bits; naturals are written as sequences of
\* digits of base LimbBase, lowest digit first, without leading zeros.
MantissaBits == 53
LimbBits == 8
LimbBase == 256
\* Bits a quotient is computed with beyond those of the divisor.
QuotientShift == 64

\* The one element of a set of one element.
Only(S) == CHOOSE x \in S : TRUE
RECURSIVE Pow2(_)
Pow2(k) == IF k = 0 THEN 1 ELSE 2 * Pow2(k - 1)
RECURSIVE NatLimbs(_)
NatLimbs(n) == IF n = 0 THEN <<>> ELSE <<n % LimbBase>> \o NatLimbs(n \div LimbBase)
RECURSIVE TrimLimbs(_)
TrimLimbs(a) ==
    IF a = <<>> \/ a[Len(a)] # 0 THEN a ELSE TrimLimbs(SubSeq(a, 1, Len(a) - 1))
LimbAt(a, i) == IF i >= 1 /\ i <= Len(a) THEN a[i] ELSE 0
LongerLen(a, b) == IF Len(a) > Len(b) THEN Len(a) ELSE Len(b)
\* a * LimbBase^k
ShiftLimbs(a, k) == IF a = <<>> THEN <<>> ELSE [i \in 1..(Len(a) + k) |-> IF i <= k THEN 0 ELSE a[i - k]]
RECURSIVE AddFrom(_, _, _, _, _)
AddFrom(a, b, i, carry, n) ==
    IF i > n THEN <<>>
    ELSE <<(LimbAt(a, i) + LimbAt(b, i) + carry) % LimbBase>>
         \o AddFrom(a, b, i + 1, (LimbAt(a, i) + LimbAt(b, i) + carry) \div LimbBase, n)
AddLimbs(a, b) == TrimLimbs(AddFrom(a, b, 1, 0, LongerLen(a, b) + 1))
\* a - b for a >= b
RECURSIVE SubFrom(_, _, _, _)
SubFrom(a, b, i, borrow) ==
    IF i > Len(a) THEN <<>>
    ELSE <<(LimbAt(a, i) + LimbBase - LimbAt(b, i) - borrow) % LimbBase>>
         \o SubFrom(a, b, i + 1, IF LimbAt(a, i) - LimbAt(b, i) - borrow < 0 THEN 1 ELSE 0)
SubLimbs(a, b) == TrimLimbs(SubFrom(a, b, 1, 0))
\* -1, 0 or 1 as a is less than, equal to or greater than b
RECURSIVE CmpFrom(_, _, _)
CmpFrom(a, b, i) ==
    IF i = 0 THEN 0
    ELSE IF LimbAt(a, i) > LimbAt(b, i) THEN 1
    ELSE IF LimbAt(a, i) < LimbAt(b, i) THEN -1
    ELSE CmpFrom(a, b, i - 1)
CmpLimbs(a, b) == CmpFrom(a, b, LongerLen(a, b))
\* a * d for one digit d (d <= LimbBase)
RECURSIVE MulSmallFrom(_, _, _, _)
MulSmallFrom(a, d, i, carry) ==
    IF i > Len(a) + 2 THEN <<>>
    ELSE <<(LimbAt(a, i) * d + carry) % LimbBase>>
         \o MulSmallFrom(a, d, i + 1, (LimbAt(a, i) * d + carry) \div LimbBase)
MulSmall(a, d) == TrimLimbs(MulSmallFrom(a, d, 1, 0))
RECURSIVE MulFrom(_, _, _, _)
MulFrom(a, b, i, acc) ==
    IF i > Len(b) THEN acc
    ELSE Only({MulFrom(a, b, i + 1, sum) :
                  sum \in {AddLimbs(acc, ShiftLimbs(MulSmall(a, b[i]), i - 1))}})
MulLimbs(a, b) == MulFrom(a, b, 1, <<>>)
\* The digit of a quotient: the d with d * b <= rem < (d + 1) * b.
QuotientDigit(rem, b) ==
    CHOOSE d \in 0..(LimbBase - 1) :
        /\ CmpLimbs(MulSmall(b, d), rem) <= 0
        /\ CmpLimbs(MulSmall(b, d + 1), rem) > 0
\* Long division from the highest digit of a: quotient q and remainder r.
RECURSIVE DivFrom(_, _, _, _, _)
DivStep(a, b, i, shifted, q, d) ==
    Only({DivFrom(a, b, i - 1, rem, longer) :
             rem \in {SubLimbs(shifted, MulSmall(b, d))}, longer \in {<<d>> \o q}})
DivFrom(a, b, i, rem, q) ==
    IF i = 0 THEN [q |-> TrimLimbs(q), r |-> rem]
    ELSE Only({DivStep(a, b, i, shifted, q, QuotientDigit(shifted, b)) :
                  shifted \in {TrimLimbs(<<a[i]>> \o rem)}})
DivLimbs(a, b) == DivFrom(a, b, Len(a), <<>>, <<>>)

\* The number of bits of a, bit i of a (bit 1 the lowest), a * 2^k, a div 2^k.
RECURSIVE SmallBitLen(_)
SmallBitLen(d) == IF d = 0 THEN 0 ELSE 1 + SmallBitLen(d \div 2)
BitLen(a) == IF a = <<>> THEN 0 ELSE LimbBits * (Len(a) - 1) + SmallBitLen(a[Len(a)])
BitOf(a, i) == (LimbAt(a, (i - 1) \div LimbBits + 1) \div Pow2((i - 1) % LimbBits)) % 2
ShiftLeft(a, k) == ShiftLimbs(MulSmall(a, Pow2(k % LimbBits)), k \div LimbBits)
ShiftRight(a, k) ==
    TrimLimbs([i \in 1..(Len(a) - k \div LimbBits) |->
                  LimbAt(a, i + k \div LimbBits) \div Pow2(k % LimbBits)
                  + (LimbAt(a, i + 1 + k \div LimbBits) % Pow2(k % LimbBits))
                    * Pow2(LimbBits - (k % LimbBits))])

\* m * 2^e (m > 0) rounded to the nearest double, ties to even; sticky says
\* that m was cut short of a non-zero rest.
RoundedUp(kept) == AddLimbs(kept, <<1>>)
RoundBits(m, e, sticky) ==
    IF BitLen(m) <= MantissaBits
    THEN [m |-> ShiftLeft(m, MantissaBits - BitLen(m)), e |-> e - (MantissaBits - BitLen(m))]
    ELSE LET k == BitLen(m) - MantissaBits
             kept == ShiftRight(m, k)
             rest == sticky \/ \E i \in 1..(k - 1) : BitOf(m, i) = 1
             up == BitOf(m, k) = 1 /\ (rest \/ BitOf(kept, 1) = 1)
         IN IF up /\ BitLen(RoundedUp(kept)) > MantissaBits
            THEN [m |-> ShiftRight(RoundedUp(kept), 1), e |-> e + k + 1]
            ELSE [m |-> IF up THEN RoundedUp(kept) ELSE kept, e |-> e + k]

\* float(n), x * y, x / y, x + y and x > y on positive doubles
Float(n) == RoundBits(NatLimbs(n), 0, FALSE)
FloatMul(x, y) == RoundBits(MulLimbs(x.m, y.m), x.e + y.e, FALSE)
FloatDivRounded(d, e) == RoundBits(d.q, e, d.r # <<>>)
FloatDiv(x, y) ==
    FloatDivRounded(DivLimbs(ShiftLeft(x.m, QuotientShift), y.m), x.e - QuotientShift - y.e)
MinExp(x, y) == IF x.e < y.e THEN x.e ELSE y.e
Aligned(x, lo) == ShiftLeft(x.m, x.e - lo)
FloatAdd(x, y) ==
    RoundBits(AddLimbs(Aligned(x, MinExp(x, y)), Aligned(y, MinExp(x, y))), MinExp(x, y), FALSE)
FloatGt(x, y) == CmpLimbs(Aligned(x, MinExp(x, y)), Aligned(y, MinExp(x, y))) > 0
FloatMax(x, y) == IF FloatGt(y, x) THEN y ELSE x

\* inch = 72.0; landscape(letter)[0] - 1.0 * inch = 720.0; 0.4 * inch
inch_f == Float(72)
available_width_f == Float(720)
min_col_w_abs_f == FloatMul(FloatDiv(Float(4), Float(10)), inch_f)

\* sum(xs) of a non-empty list of doubles by plain accumulation from the left
\* (CPython before 3.12), and correctly rounded, which is what the compensated
\* summation of CPython 3.12 gives for these lists.
RECURSIVE sum_from(_, _, _)
sum_from(xs, i, acc) ==
    IF i > Len(xs) THEN acc
    ELSE Only({sum_from(xs, i + 1, next) : next \in {FloatAdd(acc, xs[i])}})
sum_plain(xs) == sum_from(xs, 2, xs[1])
\* The exact sum of a list of n copies of one double, as m * 2^e.
ExactSum(xs) == [m |-> MulLimbs(xs[1].m, NatLimbs(Len(xs))), e |-> xs[1].e]
sum_compensated(xs) == RoundBits(ExactSum(xs).m, ExactSum(xs).e, FALSE)

\* Lines 530-538 of optimize_table_for_display, one line at a time, for a table
\* of num_orig_cols columns laid out normally on the landscape letter page.
ColumnCounts ==
    {[kind |-> "columns", num_orig_cols |-> n] : n \in 1..MAX_COLS_FOR_NORMAL_LAYOUT}
NoFloat == [m |-> <<>>, e |-> 0]
WidthsAt(line, col_w, calc, total, final) ==
    [kind |-> "widths", line |-> line, col_w |-> col_w, final_col_widths_calc |-> calc,
     current_total_width_calc |-> total, final_col_widths |-> final]

\* Line 530: col_w = available_width / num_orig_cols
ComputeColW ==
    /\ table_source.kind = "columns" /\ table_layout = Pending
    /\ table_layout' = WidthsAt("col_w",
                                FloatDiv(available_width_f, Float(table_source.num_orig_cols)),
                                <<>>, NoFloat, <<>>)
    /\ UNCHANGED <<table_source, handed_table, request_vars>>

\* Lines 531-532: final_col_widths_calc = [max(min_col_w_abs, col_w)] * num_orig_cols
ComputeWidthsCalc ==
    /\ table_source.kind = "columns" /\ table_layout # Pending
    /\ table_layout.line = "col_w"
    /\ table_layout' = WidthsAt("calc", table_layout.col_w,
                                [i \in 1..table_source.num_orig_cols |->
                                    FloatMax(min_col_w_abs_f, table_layout.col_w)],
                                NoFloat, <<>>)
    /\ UNCHANGED <<table_source, handed_table, request_vars>>

\* Line 533: current_total_width_calc = sum(final_col_widths_calc), as the
\* interpreter at hand sums.
ComputeTotal ==
    /\ table_source.kind = "columns" /\ table_layout # Pending
    /\ table_layout.line = "calc"
    /\ \E total \in {sum_plain(table_layout.final_col_widths_calc),
                     sum_compensated(table_layout.final_col_widths_calc)} :
          table_layout' = WidthsAt("total", table_layout.col_w,
                                   table_layout.final_col_widths_calc, total, <<>>)
    /\ UNCHANGED <<table_source, handed_table, request_vars>>

\* Lines 534-536: the total exceeds available_width and the widths are scaled.
ScaleWidths ==
    /\ table_source.kind = "columns" /\ table_layout # Pending
    /\ table_layout.line = "total"
    /\ FloatGt(table_layout.current_total_width_calc, available_width_f)
    /\ \E scale_factor \in {FloatDiv(available_width_f,
                                     table_layout.current_total_width_calc)} :
          table_layout' = WidthsAt("done", table_layout.col_w,
                                   table_layout.final_col_widths_calc,
                                   table_layout.current_total_width_calc,
                                   [i \in 1..table_source.num_orig_cols |->
                                       FloatMul(table_layout.final_col_widths_calc[i],
                                                scale_factor)])
    /\ UNCHANGED <<table_source, handed_table, request_vars>>

\* Lines 537-538: the widths are kept.
KeepWidths ==
    /\ table_source.kind = "columns" /\ table_layout # Pending
    /\ table_layout.line = "total"
    /\ ~FloatGt(table_layout.current_total_width_calc, available_width_f)
    /\ table_layout' = WidthsAt("done", table_layout.col_w,
                                table_layout.final_col_widths_calc,
                                table_layout.current_total_width_calc,
                                table_layout.final_col_widths_calc)
    /\ UNCHANGED <<table_source, handed_table, request_vars>>

InitWidths ==
    /\ InitLocals
    /\ request = "ok"
    /\ xml = Unparsed("parse_error", T_syntax)
    /\ builder = GoodBuilder
    /\ schema_files_config = DefaultConfig
    /\ disk = DefaultDisk
    /\ docx = TRUE
    /\ calls = <<>>
    /\ table_source \in ColumnCounts
    /\ handed_table = NoTableHanded
    /\ table_layout = Pending

NextWidths ==
    \/ ComputeColW
    \/ ComputeWidthsCalc
    \/ ComputeTotal
    \/ ScaleWidths
    \/ KeepWidths

SpecWidths == InitWidths /\ [][NextWidths]_vars

WidthsDone == table_source.kind = "columns" /\ table_layout # Pending /\ table_layout.line = "done"
\* The exact sum of the final widths is greater than available_width.
ExactSumExceeds(widths) ==
    CmpLimbs(Aligned(ExactSum(widths), MinExp(ExactSum(widths), available_width_f)),
            Aligned(available_width_f, MinExp(ExactSum(widths), available_width_f))) > 0

\* C23: for a table with 1 to 25 columns each column width is computed as
\* max(available_width / ncols, the absolute minimum of 0.4 inch) and all widths
\* are scaled down proportionally only when their sum exceeds available_width;
\* consequently the sum of the final column widths never exceeds
\* available_width and widths are never scaled up.
C23_WidthsWithinAvailable ==
    WidthsDone =>
        /\ Len(table_layout.final_col_widths) = table_source.num_orig_cols
        /\ \A i \in 1..Len(table_layout.final_col_widths) :
              ~FloatGt(table_layout.final_col_widths[i], table_layout.final_col_widths_calc[i])
        /\ ~ExactSumExceeds(table_layout.final_col_widths)

\* The part that holds: no width is ever scaled up.
C23_NeverScaledUp ==
    WidthsDone =>
        \A i \in 1..Len(table_layout.final_col_widths) :
           ~FloatGt(table_layout.final_col_widths[i], table_layout.final_col_widths_calc[i])

\* The sum of the final widths as plain accumulation gives it exceeds
\* available_width.
C23_PlainSumExceeds ==
    WidthsDone /\ FloatGt(sum_plain(table_layout.final_col_widths), available_width_f)

\* ------------------------------------------------- merging of schema files

\* The map as the first n files of a call's config leave it.
MapAfterFiles(config, n) == load_column_mappings_from_schema_files(SubSeq(config, 1, n), disk)
\* Every tag-to-display-name entry of `before` is in `after` with the same name.
EntriesKept(before, after) ==
    \A i \in 1..Len(before) :
       \A j \in 1..Len(before[i].v) :
          DictGet(DictGet(after, before[i].k, <<>>), before[i].v[j].k, None)
              = before[i].v[j].v
LastConfig == calls[Len(calls)]

\* C24: field-map merging never overwrites. Once a table name is registered,
\* by the hardcoded entry or by an earlier schema file, a later schema file
\* that defines the same table name changes no already registered
\* tag-to-display-name entry of that table, so the hardcoded table keeps its
\* fixed 14 entries whatever the schema files contain.
C24_MergingNeverOverwrites ==
    calls # <<>> =>
        /\ \A n \in 0..Len(LastConfig) :
              EntriesKept(MapAfterFiles(LastConfig, n), HIERARCHY_TABLE_COLUMN_MAPPINGS)
        /\ DictGet(HIERARCHY_TABLE_COLUMN_MAPPINGS, HardcodedTableName, <<>>)
               = HardcodedTableFields

\* What a later file leaves alone: the tables registered and their tags stay,
\* and a tag the later files do not define keeps its name.
TagsKept(before, after) ==
    \A i \in 1..Len(before) :
       \A j \in 1..Len(before[i].v) :
          DictHas(DictGet(after, before[i].k, <<>>), before[i].v[j].k)
DefinedLater(config, n, table, tag) ==
    \E m \in (n + 1)..Len(config) :
       /\ disk[config[m]].state = "ok"
       /\ \E t \in 1..Len(disk[config[m]].tables) :
             /\ disk[config[m]].tables[t].name = table
             /\ \E f \in 1..Len(disk[config[m]].tables[t].fields) :
                   /\ disk[config[m]].tables[t].fields[f].key # None
                   /\ FPrefix \o disk[config[m]].tables[t].fields[f].key = tag
C24_TagsKeptNamesUnlessRedefined ==
    calls # <<>> =>
        \A n \in 0..Len(LastConfig) :
           /\ TagsKept(MapAfterFiles(LastConfig, n), HIERARCHY_TABLE_COLUMN_MAPPINGS)
           /\ \A i \in 1..Len(MapAfterFiles(LastConfig, n)) :
                 \A j \in 1..Len(MapAfterFiles(LastConfig, n)[i].v) :
                    \/ DefinedLater(LastConfig, n, MapAfterFiles(LastConfig, n)[i].k,
                                    MapAfterFiles(LastConfig, n)[i].v[j].k)
                    \/ DictGet(DictGet(HIERARCHY_TABLE_COLUMN_MAPPINGS,
                                       MapAfterFiles(LastConfig, n)[i].k, <<>>),
                               MapAfterFiles(LastConfig, n)[i].v[j].k, None)
                           = MapAfterFiles(LastConfig, n)[i].v[j].v

\* A call whose schema file names the hardcoded table has left it with a
\* fifteenth entry and another name for F_95.
C24_HardcodedTableChanged ==
    /\ calls # <<>>
    /\ Len(DictGet(HIERARCHY_TABLE_COLUMN_MAPPINGS, HardcodedTableName, <<>>)) = 15
    /\ DictGet(DictGet(HIERARCHY_TABLE_COLUMN_MAPPINGS, HardcodedTableName, <<>>),
               <<"F", "_", "9", "5">>, None) = T_Qty

\* ------------------------------------------------- the header row of a block

ExcelBlockHanded == table_source.kind = "excelBlock" /\ handed_table # Pending
\* A row that is not all-blank and at least half of whose non-blank cells are
\* non-numeric-looking text.
HeaderLike(row_tuple) ==
    /\ ~is_empty_row(StrippedRow(row_tuple))
    /\ 2 * CountIn(StrippedRow(row_tuple), TextLike)
           >= CountIn(StrippedRow(row_tuple), LAMBDA v : v # <<>>)
FirstIn(S) == CHOOSE i \in S : \A j \in S : i <= j
\* The 0-based index of the first header-like row, of the first non-blank row
\* when no row is header-like, -1 when every row is blank.
HeaderRowByHeuristic(row_block) ==
    LET like == {i \in 1..Len(row_block) : HeaderLike(row_block[i])}
        filled == {i \in 1..Len(row_block) : ~is_empty_row(StrippedRow(row_block[i]))}
    IN IF like # {} THEN FirstIn(like) - 1
       ELSE IF filled # {} THEN FirstIn(filled) - 1
       ELSE -1
\* What the flush of a block hands over when its header row is header_row_idx.
HandedWithHeader(row_block, header_row_idx) ==
    LET tables == flushed(row_block, <<>>, headed_table(row_block, 0, header_row_idx))
    IN IF tables = <<>> THEN NoTableHanded ELSE Handed(tables[1])

\* C25: for each non-empty Excel block the header row chosen by
\* _process_active_table_block is the first row of the block that is not
\* all-blank and in which at least half of the non-blank cells are
\* non-numeric-looking text; only when no row of the block satisfies that
\* heuristic is the first non-blank row used as header.
C25_HeaderRowByHeuristic ==
    ExcelBlockHanded =>
        /\ header_scan(table_source.row_block, 0, -1)
               = HeaderRowByHeuristic(table_source.row_block)
        /\ handed_table
               = HandedWithHeader(table_source.row_block,
                                  HeaderRowByHeuristic(table_source.row_block))

\* A block whose first row is numeric and whose second is text has been handed
\* over with the numeric row as its headers.
C25_NumericRowMadeHeader ==
    /\ ExcelBlockHanded
    /\ table_source.row_block = << <<T_1, T_2, None>>, <<T_Name, T_Qty, None>> >>
    /\ handed_table = Handed([headers |-> <<T_1, T_2>>, rows |-> << <<T_Name, T_Qty>> >>])

\* ------------------------------------------------- the title of a block

SheetHanded == table_source.kind = "sheet" /\ handed_table # Pending
\* The blocks of the sheet that gave a table, in sheet order.
KeptBlocks == SelectSeq(handed_table.blocks, LAMBDA b : flush_block(b, <<>>) # <<>>)
\* The 0-based indexes of the non-blank rows strictly above the header row.
RowsAbove(row_block, header_row_idx) ==
    {i \in 0..(header_row_idx - 1) : ~is_empty_row(StrippedRow(row_block[i + 1]))}
\* The rows of a set of indexes joined, nearest the header row first.
RECURSIVE JoinedRows(_, _)
JoinedRows(row_block, indexes) ==
    IF indexes = {} THEN <<>>
    ELSE LET last == CHOOSE i \in indexes : \A j \in indexes : j <= i
         IN JoinNonEmpty(<<JoinNonEmpty(StrippedRow(row_block[last + 1])),
                           JoinedRows(row_block, indexes \ {last})>>)
TitleOfBlock(row_block, emitted) ==
    IF RowsAbove(row_block, header_scan(row_block, 0, -1)) = {}
    THEN DefaultTableTitle(emitted + 1)
    ELSE strip(JoinedRows(row_block, RowsAbove(row_block, header_scan(row_block, 0, -1))))

C26_RowAboveHeader ==
    /\ SheetHanded
    /\ \E j \in 1..Len(KeptBlocks) :
          RowsAbove(KeptBlocks[j], header_scan(KeptBlocks[j], 0, -1)) # {}

\* ------------------------------------------------- property tables

\* An object of a recognised field name whose propertyInstances element has a
\* child.
PropertyTableObject(obj) ==
    /\ obj.field.name # None
    /\ strip(lower(obj.field.name)) \in normalized_property_table_field_identifiers
    /\ obj.propertyInstances # NoElement
    /\ obj.propertyInstances.children # <<>>
OtherChildren(obj) ==
    {k \in {"styledText", "tableSection", "hierarchyData", "document", "addin",
            "ancillaryData"} : obj[k] # NoElement}

\* C27: for an object whose normalized field name is in the recognised set and
\* whose propertyInstances element has at least one child, step (1) always
\* produces a table, a header-only one when every property pair is blank and
\* zero rows were extracted, so kinds (2)-(6) and the ancillary fallback are
\* never attempted for that object even if their XML children are present.
C27_PropertyTableAlwaysProduced ==
    \A i \in 1..Len(dispatched) :
       PropertyTableObject(DispatchedObject(dispatched[i])) =>
           /\ dispatched[i].st.produced /\ ~dispatched[i].st.raised
           /\ dispatched[i].st.attempted = {"property"}
           /\ dispatched[i].st.by = <<"property">>
           /\ dispatched[i].st.buffer[1].kind = "Table"
           /\ extract_metadata_properties(DispatchedObject(dispatched[i]).propertyInstances)
                  = <<>>
                  => Len(dispatched[i].st.buffer[1].data) = 1

\* An object of field Metadata whose one property pair is blank, with an add-in
\* child as well, has been dispatched and gave the header-only table.
C27_Witness ==
    \E i \in 1..Len(dispatched) :
       /\ PropertyTableObject(DispatchedObject(dispatched[i]))
       /\ extract_metadata_properties(DispatchedObject(dispatched[i]).propertyInstances)
              = <<>>
       /\ OtherChildren(DispatchedObject(dispatched[i])) = {"addin"}
       /\ dispatched[i].st.by = <<"property">>
       /\ Len(dispatched[i].st.buffer[1].data) = 1

\* The same with an ancillaryData child that names an extension.
C27_AncillaryNotAttempted ==
    \E i \in 1..Len(dispatched) :
       /\ PropertyTableObject(DispatchedObject(dispatched[i]))
       /\ HasAncillaryExtension(DispatchedObject(dispatched[i]))
       /\ dispatched[i].st.by = <<"property">>

\* ------------------------------------------------- leading-column trimming

\* The start column (0-based) that lines 171-182 find for a block.
TrimStart(row_block) ==
    LET header_row_idx == header_scan(row_block, 0, -1)
        data_tuples == SubSeq(row_block, header_row_idx + 2, Len(row_block))
    IN find_actual_content_start_column(
           row_block[header_row_idx + 1], data_tuples,
           MaxOf(MaxColOfRow(row_block[header_row_idx + 1]),
                 max_cols_from_data(data_tuples)))
\* The cell of column c (1-based) of a row of the block is in the emitted
\* headers or rows at its offset from the start column.
CellEmitted(row_tuple, c, start) ==
    /\ c - start >= 1
    /\ \E row \in {handed_table.headers} \cup Range(handed_table.rows) :
          Len(row) >= c - start /\ row[c - start] = CellStr(row_tuple[c])
RowEmitted(row_tuple, start) ==
    \A c \in 1..Len(row_tuple) :
       strip(CellStr(row_tuple[c])) # <<>> => CellEmitted(row_tuple, c, start)
ExcelTableHanded == ExcelBlockHanded /\ handed_table.kind = "table"

\* C28: leading-column trimming in Excel block processing never discards data:
\* for every block, each non-blank cell of the header row and of every data row
\* of the block (not only the first five data rows) appears, at its column
\* offset from the trimmed start column, in the emitted headers or rows.
C28_TrimmingKeepsEveryCell ==
    ExcelTableHanded =>
        \A r \in 1..Len(table_source.row_block) :
           RowEmitted(table_source.row_block[r], TrimStart(table_source.row_block))

\* What holds: the cells of the header row and of the first five data rows are
\* kept.
C28_TrimmingKeepsSampledRows ==
    ExcelTableHanded =>
        \A r \in 1..MinOf(Len(table_source.row_block), SampleRows + 1) :
           RowEmitted(table_source.row_block[r], TrimStart(table_source.row_block))

\* The block of seven rows has been handed over without the first cell of its
\* last row.
C28_LateCellDiscarded ==
    /\ ExcelTableHanded
    /\ table_source.row_block = LongBlock
    /\ handed_table.headers = <<T_Name, T_Qty>>
    /\ handed_table.rows = [i \in 1..(SampleRows + 1) |-> <<T_a, T_1>>]

\* ------------------------------------------------- checklist state per section

\* first_checklist_text_content_raw as section s alone gives it.
SectionRaw(s) == IF ChecklistTextPositions(s) = {} THEN None ELSE SectionChecklistText(s)
\* The styled plain text of dispatch d was rendered by step (2).
StyledRendered(d) == d.st.by = <<"styled">>

\* C29: the checklist description map and the remembered checklist text are
\* scoped to one section. They are reset at the start of every section, so
\* dispatch of a section never decorates checklist items with descriptions
\* parsed from another section's checklist text and never skips a styled text
\* because it equals another section's checklist text; a section without a
\* qualifying checklist text object decorates no item and skips no styled text.
C29_ChecklistStatePerSection ==
    /\ pc = "object" =>
           /\ checklist_text_descriptions_for_section = SectionDescriptions(section_idx)
           /\ first_checklist_text_content_raw = SectionRaw(section_idx)
    /\ \A i \in 1..Len(dispatched) :
          /\ ("property" \in ProducingKinds(dispatched[i].st)
              /\ IsChecklistField(DispatchedObject(dispatched[i]))) =>
                 /\ DecoratedWithSectionMap(dispatched[i])
                 /\ ChecklistTextPositions(dispatched[i].section) = {} =>
                        \A r \in 1..Len(XmlPairs(DispatchedObject(dispatched[i]).propertyInstances)) :
                           dispatched[i].st.buffer[1].data[r + 1][1]
                               = html_escape(XmlPairs(DispatchedObject(dispatched[i]).propertyInstances)[r][1])
          /\ (StyledTextReached(dispatched[i])
              /\ ~StyledRendered(dispatched[i])) =>
                 /\ ChecklistTextPositions(dispatched[i].section) # {}
                 /\ StyledPlainText(DispatchedObject(dispatched[i]))
                        = SectionChecklistText(dispatched[i].section)

\* The first section has the checklist text "1 Hello"; the second, which has no
\* checklist text, has been dispatched: its checklist table carries the bare
\* labels and its text "1 Hello" was rendered.
C29_Witness ==
    /\ Len(all_sections) = 2
    /\ SectionChecklistText(0) = T_1 \o <<" ">> \o T_Hello
    /\ SectionDescriptions(0) # <<>>
    /\ ChecklistTextPositions(1) = {}
    /\ \E i \in 1..Len(dispatched) : \E j \in 1..Len(dispatched) :
          /\ dispatched[i].section = 1 /\ dispatched[i].object = 0
          /\ dispatched[i].st.buffer[1].data[2][1] = T_1
          /\ dispatched[j].section = 1 /\ dispatched[j].object = 1
          /\ StyledPlainText(DispatchedObject(dispatched[j])) = SectionChecklistText(0)
          /\ StyledRendered(dispatched[j])

====
